---- MODULE Spec2Model ----
(***************************************************************************)
(* Channel multiplexing and frame-dispatch engine of SimpleAmqpClient      *)
(* (Channel::ChannelImpl): the channel pool, the frame queue with its      *)
(* message-boundary detector, the publisher-confirm tracker and the        *)
(* content reassembler, as one state machine.                              *)
(*                                                                         *)
(* The engine is single threaded.  An operation runs from its call until   *)
(* it returns or throws; the only place it can block is the transport      *)
(* read.  An operation that has to wait is therefore a call action (the    *)
(* code up to the first wait), followed by one step per frame it obtains   *)
(* (TakeQueuedFrame: from m_frame_queue; ReceiveFrame: from the broker).   *)
(* While pc # "idle" no other operation can start.                         *)
(***************************************************************************)
EXTENDS Integers, Sequences, FiniteSets, TLC

\* ---------------------------------------------------------------- bounds
\* channel-max negotiated with the broker (amqp_get_channel_max)
MaxChannels == 2
\* largest delivery tag the broker uses in basic.ack / basic.nack
MaxTag == 3
\* largest body size a content header declares
MaxBody == 2
\* longest body fragment of one body frame
MaxFragment == 1
\* most frames left parked in m_frame_queue when AddToFrameQueue returns
MaxQueue == 2
\* most envelopes kept in m_delivered_messages
MaxDelivered == 1
\* most frames left parked in m_frame_queue while deliveries are collected
MaxPending == 3
\* most publishes counted on one channel
MaxPublish == 3

\* std::numeric_limits<uint16_t>::max()
UINT16_MAX == 65535

\* ---------------------------------------------------------------- frames
CS_Closed == "CS_Closed"
CS_Open == "CS_Open"
CS_Used == "CS_Used"

AMQP_FRAME_METHOD == "AMQP_FRAME_METHOD"
AMQP_FRAME_HEADER == "AMQP_FRAME_HEADER"
AMQP_FRAME_BODY == "AMQP_FRAME_BODY"

AMQP_CHANNEL_OPEN_METHOD == "channel.open"
AMQP_CHANNEL_OPEN_OK_METHOD == "channel.open-ok"
AMQP_CHANNEL_CLOSE_METHOD == "channel.close"
AMQP_CHANNEL_CLOSE_OK_METHOD == "channel.close-ok"
AMQP_CONNECTION_CLOSE_METHOD == "connection.close"
AMQP_CONNECTION_CLOSE_OK_METHOD == "connection.close-ok"
AMQP_CONFIRM_SELECT_METHOD == "confirm.select"
AMQP_CONFIRM_SELECT_OK_METHOD == "confirm.select-ok"
AMQP_BASIC_ACK_METHOD == "basic.ack"
AMQP_BASIC_NACK_METHOD == "basic.nack"
AMQP_BASIC_RETURN_METHOD == "basic.return"
AMQP_BASIC_DELIVER_METHOD == "basic.deliver"
AMQP_BASIC_CONSUME_METHOD == "basic.consume"
AMQP_BASIC_CONSUME_OK_METHOD == "basic.consume-ok"

\* Consumer tags: what callers register and what the broker assigns.
ConsumerTags == {"amq.ctag-1", "amq.ctag-2"}

\* The octets a body fragment is made of.
Bytes == {"a", "b"}

\* amqp_basic_return_t as decoded by the transport; NoReturn where the frame
\* is no basic.return.
NoReturn == [reply_code |-> 0, reply_text |-> "", exchange |-> "", routing_key |-> ""]
ReturnMethods ==
  { [reply_code |-> 312, reply_text |-> "NO_ROUTE", exchange |-> "", routing_key |-> "rk"],
    [reply_code |-> 313, reply_text |-> "NO_CONSUMERS", exchange |-> "ex", routing_key |-> ""] }

\* amqp_frame_t: the fields of the tagged union the engine reads.
MethodFrame(c, id, tag, rtn) ==
  [frame_type |-> AMQP_FRAME_METHOD, channel |-> c, id |-> id, delivery_tag |-> tag,
   returned |-> rtn, body_size |-> 0, body_fragment |-> <<>>, consumer_tag |-> ""]
HeaderFrame(c, n) ==
  [frame_type |-> AMQP_FRAME_HEADER, channel |-> c, id |-> "", delivery_tag |-> 0,
   returned |-> NoReturn, body_size |-> n, body_fragment |-> <<>>, consumer_tag |-> ""]
BodyFrame(c, frag) ==
  [frame_type |-> AMQP_FRAME_BODY, channel |-> c, id |-> "", delivery_tag |-> 0,
   returned |-> NoReturn, body_size |-> 0, body_fragment |-> frag, consumer_tag |-> ""]
\* basic.consume-ok carrying the consumer tag the broker assigned
ConsumeOkFrame(c, ctag) ==
  [MethodFrame(c, AMQP_BASIC_CONSUME_OK_METHOD, 0, NoReturn) EXCEPT !.consumer_tag = ctag]

SeqsUpTo(S, n) == UNION { [1..k -> S] : k \in 1..n }
Fragments == SeqsUpTo(Bytes, MaxFragment)

\* What the transport can hand to the engine on channel c >= 1.
ChannelFrames(c) ==
     { MethodFrame(c, id, 0, NoReturn) :
         id \in {AMQP_CHANNEL_OPEN_OK_METHOD, AMQP_CONFIRM_SELECT_OK_METHOD,
                 AMQP_CHANNEL_CLOSE_METHOD, AMQP_BASIC_DELIVER_METHOD} }
  \cup { MethodFrame(c, id, t, NoReturn) :
         id \in {AMQP_BASIC_ACK_METHOD, AMQP_BASIC_NACK_METHOD}, t \in 1..MaxTag }
  \cup { MethodFrame(c, AMQP_BASIC_RETURN_METHOD, 0, r) : r \in ReturnMethods }
  \cup { HeaderFrame(c, n) : n \in 0..MaxBody }
  \cup { BodyFrame(c, frag) : frag \in Fragments }
BrokerFrames ==
  UNION { ChannelFrames(c) : c \in 1..MaxChannels }
  \cup { MethodFrame(0, AMQP_CONNECTION_CLOSE_METHOD, 0, NoReturn) }

\* amqp_rpc_reply_t: reply_type, and for a server exception the method id
\* and the reply code and text of the close method it carries.
AMQP_RESPONSE_NONE == "AMQP_RESPONSE_NONE"
AMQP_RESPONSE_NORMAL == "AMQP_RESPONSE_NORMAL"
AMQP_RESPONSE_LIBRARY_EXCEPTION == "AMQP_RESPONSE_LIBRARY_EXCEPTION"
AMQP_RESPONSE_SERVER_EXCEPTION == "AMQP_RESPONSE_SERVER_EXCEPTION"
RpcReply(type, id, code, text) ==
  [reply_type |-> type, id |-> id, reply_code |-> code, reply_text |-> text]
NoReply == RpcReply("", "", 0, "")
\* What amqp_login_with_properties can return: success, a library error (the
\* frame size too small, the socket closed), or the broker's connection.close.
LoginReplies ==
  { RpcReply(AMQP_RESPONSE_NORMAL, "", 0, ""),
    RpcReply(AMQP_RESPONSE_LIBRARY_EXCEPTION, "", 0, ""),
    RpcReply(AMQP_RESPONSE_SERVER_EXCEPTION, AMQP_CONNECTION_CLOSE_METHOD,
             403, "ACCESS_REFUSED"),
    RpcReply(AMQP_RESPONSE_SERVER_EXCEPTION, AMQP_CONNECTION_CLOSE_METHOD,
             530, "NOT_ALLOWED") }
\* What a synchronous transport call on an open channel can return.
RpcReplies ==
  LoginReplies
  \cup { RpcReply(AMQP_RESPONSE_SERVER_EXCEPTION, AMQP_CHANNEL_CLOSE_METHOD,
                  404, "NOT_FOUND"),
         RpcReply(AMQP_RESPONSE_NONE, "", 0, "") }

\* ---------------------------------------------------------------- state
VARIABLES
  channel_max,           \* what amqp_get_channel_max reports for the connection
  m_channels,            \* channel_state_list_t, index 0 .. size-1
  m_last_used_channel,
  m_is_connected,
  m_frame_queue,         \* frame_queue_t, arrival order
  m_delivered_messages,  \* envelopes promoted by AddToFrameQueue
  pc,                    \* "idle", or the wait the running operation is in
  op,                    \* locals of the running operation
  ret,                   \* how the last operation ended
  sent,                  \* methods the running/last operation sent
  released,              \* channels it offered to amqp_maybe_release_buffers_on_channel
  held,                  \* callers' side: acquisitions of each id not yet released
  acked,                 \* per channel: diff of the last cumulative ack, waits since
  m_consumer_channel_map, \* std::map consumer tag -> channel, as its set of pairs
  removed,               \* consumer tags RemoveConsumer has erased so far
  published              \* callers' side: publishes counted on each channel

vars == <<channel_max, m_channels, m_last_used_channel, m_is_connected, m_frame_queue,
          m_delivered_messages, pc, op, ret, sent, released, held, acked,
          m_consumer_channel_map, removed, published>>

\* channel_state_t
ChannelState(a) ==
  [availability |-> a, last_delivery_tag |-> 0, unconsumed_ack |-> 0, direct_reply_tag |-> ""]

Size(v) == Cardinality(DOMAIN v)
PushBack(v, x) == [i \in 0..Size(v) |-> IF i < Size(v) THEN v[i] ELSE x]
ChannelIds == 1..MaxChannels

NoFrame == [frame_type |-> "", channel |-> 0, id |-> "", delivery_tag |-> 0,
            returned |-> NoReturn, body_size |-> 0, body_fragment |-> <<>>,
            consumer_tag |-> ""]
NoException == [message |-> <<>>, reply_code |-> 0, reply_text |-> "", exchange |-> "",
                routing_key |-> "", delivery_tag |-> 0]

\* Locals of the running operation: its name and channel, what ReadContent
\* has got so far (body_size, message), the basic.return it is handling, the
\* frames it has obtained, in order, whether it read from the transport /
\* took from the queue, and the frame it last gave to AddToFrameQueue.
NoOp == [name |-> "", channel |-> 0, body_size |-> 0, message |-> <<>>,
         frames |-> <<>>, return_method |-> NoReturn, read |-> FALSE,
         queued |-> FALSE, consumer_tag |-> "", reply |-> NoReply,
         parked |-> NoFrame]

\* How the last operation ended: outcome is "ok" or the exception thrown
\* (exception is what a publish exception carries); id and message are what
\* it returned; frames are the frames it obtained, in order; tag_before is
\* the channel's last_delivery_tag when a confirm wait began, diff and nth its
\* place after the last cumulative ack.
NoRet == [name |-> "", channel |-> 0, outcome |-> "", id |-> 0,
          exception |-> NoException, message |-> <<>>, frames |-> <<>>,
          read |-> FALSE, queued |-> FALSE, tag_before |-> 0, diff |-> 0, nth |-> 0,
          consumer_tag |-> "", reply |-> NoReply]

\* ------------------------------------------------------- frame predicates
\* ChannelImpl::is_on_channel
is_on_channel(frame, channel) == frame.channel = channel

\* ChannelImpl::is_method_on_channel
is_method_on_channel(frame, method, channel) ==
  /\ frame.channel = channel
  /\ frame.frame_type = AMQP_FRAME_METHOD
  /\ frame.id = method

\* ChannelImpl::is_expected_method_on_channel
is_expected_method_on_channel(frame, channel, expected) ==
  /\ frame.channel = channel
  /\ frame.frame_type = AMQP_FRAME_METHOD
  /\ frame.id \in expected

\* std::find_if(begin + (from - 1), end, on channel): the index found, 0 for end()
FindOnChannel(q, from, channel) ==
  IF \E i \in from..Len(q) : is_on_channel(q[i], channel)
    THEN CHOOSE i \in from..Len(q) :
           /\ is_on_channel(q[i], channel)
           /\ \A j \in from..(i - 1) : ~is_on_channel(q[j], channel)
    ELSE 0

\* std::find_if over the whole queue for an expected method on the channel
FindExpected(q, channel, expected) ==
  IF \E i \in 1..Len(q) : is_expected_method_on_channel(q[i], channel, expected)
    THEN CHOOSE i \in 1..Len(q) :
           /\ is_expected_method_on_channel(q[i], channel, expected)
           /\ \A j \in 1..(i - 1) : ~is_expected_method_on_channel(q[j], channel, expected)
    ELSE 0

\* frame_queue_t::erase(it)
Erase(q, i) == SubSeq(q, 1, i - 1) \o SubSeq(q, i + 1, Len(q))

\* The frames of q on one channel, in queue order.
OnChannel(q, channel) == SelectSeq(q, LAMBDA f : is_on_channel(f, channel))

\* ------------------------------------------- message-boundary detector
\* The while loop of CheckForQueuedMessageOnChannel: it is the index of the
\* last frame looked at.  "true" / "false" / "throw".
RECURSIVE BodyScan(_, _, _, _, _)
BodyScan(q, channel, it, body_length, body_received) ==
  IF ~(body_received < body_length) THEN "true"
  ELSE LET nxt == FindOnChannel(q, it + 1, channel) IN
       IF nxt = 0 THEN "false"
       ELSE IF q[nxt].frame_type # AMQP_FRAME_BODY THEN "throw"
       ELSE BodyScan(q, channel, nxt, body_length,
                     body_received + Len(q[nxt].body_fragment))

\* A detector that takes a delivery as complete once its header is queued.
CheckForQueuedHeaderOnChannel(q, channel) ==
  LET deliver == FindExpected(q, channel, {AMQP_BASIC_DELIVER_METHOD})
      header == IF deliver = 0 THEN 0 ELSE FindOnChannel(q, deliver + 1, channel)
  IN IF deliver = 0 THEN "false"
     ELSE IF header = 0 THEN "false"
     ELSE IF q[header].frame_type # AMQP_FRAME_HEADER THEN "throw"
     ELSE "true"

CheckForQueuedMessageOnChannel(q, channel) ==
  LET deliver ==
        IF \E i \in 1..Len(q) : is_method_on_channel(q[i], AMQP_BASIC_DELIVER_METHOD, channel)
          THEN CHOOSE i \in 1..Len(q) :
                 /\ is_method_on_channel(q[i], AMQP_BASIC_DELIVER_METHOD, channel)
                 /\ \A j \in 1..(i - 1) :
                      ~is_method_on_channel(q[j], AMQP_BASIC_DELIVER_METHOD, channel)
          ELSE 0
      header == IF deliver = 0 THEN 0 ELSE FindOnChannel(q, deliver + 1, channel)
  IN IF deliver = 0 THEN "false"
     ELSE IF header = 0 THEN "false"
     ELSE IF q[header].frame_type # AMQP_FRAME_HEADER THEN "throw"
     ELSE BodyScan(q, channel, header, q[header].body_size, 0)

\* ------------------------------------------------- content from the queue
\* ReadContent when every frame it asks GetNextFrameOnChannel for is already
\* queued (the call AddToFrameQueue makes through ConsumeMessageOnChannelInner).
\* Result: what is left of the queue, the body, and how the call ended;
\* "wait" when the queue holds no further frame of the channel.
\* An append that puts the fragment in front.
AppendBodyInFront(body, fragment) == fragment \o body

\* message->Body().append(fragment)
AppendBody(body, fragment) == body \o fragment

RECURSIVE ReadBodyQueued(_, _, _, _)
ReadBodyQueued(q, channel, body_size, body) ==
  IF ~(Len(body) < body_size) THEN [queue |-> q, message |-> body, outcome |-> "ok"]
  ELSE LET it == FindOnChannel(q, 1, channel) IN
       IF it = 0 THEN [queue |-> q, message |-> body, outcome |-> "wait"]
       ELSE IF is_method_on_channel(q[it], AMQP_CHANNEL_CLOSE_METHOD, channel)
         THEN [queue |-> Erase(q, it), message |-> body, outcome |-> "ChannelClosed"]
       ELSE IF q[it].frame_type # AMQP_FRAME_BODY
         THEN [queue |-> Erase(q, it), message |-> body, outcome |-> "UnexpectedFrameType"]
       ELSE ReadBodyQueued(Erase(q, it), channel, body_size,
                           AppendBody(body, q[it].body_fragment))

ReadContentQueued(q, channel) ==
  LET it == FindOnChannel(q, 1, channel) IN
  IF it = 0 THEN [queue |-> q, message |-> <<>>, outcome |-> "wait"]
  ELSE IF is_method_on_channel(q[it], AMQP_CHANNEL_CLOSE_METHOD, channel)
    THEN [queue |-> Erase(q, it), message |-> <<>>, outcome |-> "ChannelClosed"]
  ELSE IF q[it].frame_type # AMQP_FRAME_HEADER
    THEN [queue |-> Erase(q, it), message |-> <<>>, outcome |-> "UnexpectedFrameType"]
  ELSE ReadBodyQueued(Erase(q, it), channel, q[it].body_size, <<>>)

\* ConsumeMessageOnChannelInner({channel}, envelope, -1) on a queue that holds
\* a basic.deliver of the channel: the deliver is taken by GetMethodOnChannel,
\* the content by ReadContent.
ConsumeMessageOnChannelInner(q, channel) ==
  LET deliver == FindExpected(q, channel, {AMQP_BASIC_DELIVER_METHOD})
  IN ReadContentQueued(Erase(q, deliver), channel)

\* Envelope of a promoted delivery.
Envelope(channel, message) == [channel |-> channel, message |-> message]

\* AddToFrameQueue(frame): the queue and the delivered list afterwards, and
\* how the call ended ("ok", or the exception it lets through).
AddToFrameQueue(q, delivered, frame) ==
  LET pushed == Append(q, frame)
      complete == CheckForQueuedMessageOnChannel(pushed, frame.channel)
      inner == ConsumeMessageOnChannelInner(pushed, frame.channel)
  IN IF complete = "throw"
       THEN [queue |-> pushed, delivered |-> delivered, outcome |-> "ProtocolError"]
     ELSE IF complete = "false"
       THEN [queue |-> pushed, delivered |-> delivered, outcome |-> "ok"]
     ELSE IF inner.outcome = "ok"
       THEN [queue |-> inner.queue,
             delivered |-> Append(delivered, Envelope(frame.channel, inner.message)),
             outcome |-> "ok"]
     ELSE [queue |-> inner.queue, delivered |-> delivered, outcome |-> inner.outcome]

\* ---------------------------------------------------------- channel pool
\* A channel-max that takes the transport's 0 as a limit of no channels.
GetChannelMaxLiteral == channel_max

\* amqp_get_channel_max, with 0 read as the protocol's maximum
GetChannelMax == IF channel_max = 0 THEN UINT16_MAX ELSE channel_max

\* std::find_if over m_channels for an availability: the index, Size for end()
FindAvailability(channels, a) ==
  IF \E i \in DOMAIN channels : channels[i].availability = a
    THEN CHOOSE i \in DOMAIN channels :
           /\ channels[i].availability = a
           /\ \A j \in 0..(i - 1) : channels[j].availability # a
    ELSE Size(channels)

\* A GetNextChannelId whose new slot is Open before the channel is opened.
GetNextChannelIdOpens(channels) ==
  LET unused_channel == FindAvailability(channels, CS_Closed) IN
  IF unused_channel = Size(channels)
    THEN IF GetChannelMax < Size(channels)
           THEN [channels |-> channels, id |-> 0, outcome |-> "TooManyChannels"]
           ELSE [channels |-> PushBack(channels, ChannelState(CS_Open)),
                 id |-> Size(channels), outcome |-> "ok"]
    ELSE [channels |-> channels, id |-> unused_channel, outcome |-> "ok"]

\* GetNextChannelId: the table afterwards, the id, and whether it threw
GetNextChannelId(channels) ==
  LET unused_channel == FindAvailability(channels, CS_Closed) IN
  IF unused_channel = Size(channels)
    THEN IF GetChannelMax < Size(channels)
           THEN [channels |-> channels, id |-> 0, outcome |-> "TooManyChannels"]
           ELSE [channels |-> PushBack(channels, ChannelState(CS_Closed)),
                 id |-> Size(channels), outcome |-> "ok"]
    ELSE [channels |-> channels, id |-> unused_channel, outcome |-> "ok"]

\* GetChannel up to the call of CreateNewChannel: the id it returns at once
\* (0 when no slot is Open and a new channel has to be opened).
GetOpenChannel(channels, last_used) ==
  IF channels[last_used].availability = CS_Open THEN last_used
  ELSE IF FindAvailability(channels, CS_Open) = Size(channels) THEN 0
  ELSE FindAvailability(channels, CS_Open)

\* A GetChannel that hands the slot out without marking it.
MarkUsedOmitted(channels, channel) == channels

\* the assignment GetChannel makes to the slot it returns
MarkUsed(channels, channel) == [channels EXCEPT ![channel].availability = CS_Used]

\* the assignment CreateNewChannel makes once both replies have arrived
MarkOpen(channels, channel) == [channels EXCEPT ![channel].availability = CS_Open]

\* A ReturnChannel that leaves the slot as it is.
ReturnChannelStillUsed(channels, channel) == [channels |-> channels, last_used |-> channel]

\* A ReturnChannel that does not remember the channel it was given.
ReturnChannelForgetful(channels, channel) ==
  [channels |-> [channels EXCEPT ![channel].availability = CS_Open], last_used |-> 0]

\* ReturnChannel: the table and m_last_used_channel afterwards
ReturnChannel(channels, channel) ==
  [channels |-> [channels EXCEPT ![channel].availability = CS_Open],
   last_used |-> channel]

\* IsChannelOpen
IsChannelOpen(channels, channel) == channels[channel].availability # CS_Closed

\* A FinishCloseChannel that sends close-ok and leaves the slot as it is.
FinishCloseChannelSlotKept(channels, channel) == channels

\* FinishCloseChannel: the table afterwards (close-ok is recorded in sent)
FinishCloseChannel(channels, channel) ==
  [channels EXCEPT ![channel].availability = CS_Closed]

Method(channel, id) == [channel |-> channel, method |-> id]

\* A CheckRpcReply that throws a server exception without the close handshake.
CheckRpcReplyNoHandshake(channels, connected, channel, reply) ==
  [channels |-> channels, connected |-> connected, sent |-> <<>>,
   outcome |->
     CASE reply.reply_type = AMQP_RESPONSE_NORMAL -> "ok"
       [] reply.reply_type = AMQP_RESPONSE_LIBRARY_EXCEPTION -> "AmqpResponseLibraryException"
       [] reply.reply_type = AMQP_RESPONSE_SERVER_EXCEPTION
            /\ reply.id = AMQP_CHANNEL_CLOSE_METHOD -> "ChannelClosedByBroker"
       [] reply.reply_type = AMQP_RESPONSE_SERVER_EXCEPTION
            /\ reply.id = AMQP_CONNECTION_CLOSE_METHOD -> "ConnectionClosedByBroker"
       [] OTHER -> "AmqpException"]

\* CheckRpcReply(channel, reply): the table and m_is_connected afterwards, the
\* methods sent, and "ok" or the exception thrown
CheckRpcReply(channels, connected, channel, reply) ==
  CASE reply.reply_type = AMQP_RESPONSE_NORMAL ->
         [channels |-> channels, connected |-> connected, sent |-> <<>>, outcome |-> "ok"]
    [] reply.reply_type = AMQP_RESPONSE_LIBRARY_EXCEPTION ->
         [channels |-> channels, connected |-> connected, sent |-> <<>>,
          outcome |-> "AmqpResponseLibraryException"]
    [] reply.reply_type = AMQP_RESPONSE_SERVER_EXCEPTION
         /\ reply.id = AMQP_CHANNEL_CLOSE_METHOD ->
         [channels |-> FinishCloseChannel(channels, channel), connected |-> connected,
          sent |-> <<Method(channel, AMQP_CHANNEL_CLOSE_OK_METHOD)>>,
          outcome |-> "ChannelClosedByBroker"]
    [] reply.reply_type = AMQP_RESPONSE_SERVER_EXCEPTION
         /\ reply.id = AMQP_CONNECTION_CLOSE_METHOD ->
         [channels |-> channels, connected |-> FALSE,
          sent |-> <<Method(0, AMQP_CONNECTION_CLOSE_OK_METHOD)>>,
          outcome |-> "ConnectionClosedByBroker"]
    [] OTHER ->
         [channels |-> channels, connected |-> connected, sent |-> <<>>,
          outcome |-> "AmqpException"]

\* A close check that closes the channel the running operation waits on.
CheckFrameForCloseAwaited(channels, connected, frame, channel) ==
  IF frame.frame_type = AMQP_FRAME_METHOD /\ frame.id = AMQP_CHANNEL_CLOSE_METHOD
    THEN [channels |-> FinishCloseChannel(channels, op.channel), connected |-> connected,
          sent |-> <<Method(op.channel, AMQP_CHANNEL_CLOSE_OK_METHOD)>>,
          outcome |-> "ChannelClosedByBroker"]
  ELSE IF frame.frame_type = AMQP_FRAME_METHOD /\ frame.id = AMQP_CONNECTION_CLOSE_METHOD
    THEN [channels |-> channels, connected |-> FALSE,
          sent |-> <<Method(0, AMQP_CONNECTION_CLOSE_OK_METHOD)>>,
          outcome |-> "ConnectionClosedByBroker"]
  ELSE [channels |-> channels, connected |-> connected, sent |-> <<>>, outcome |-> "ok"]

\* CheckFrameForClose(frame, channel): the table and m_is_connected afterwards,
\* the methods sent, and "ok" or the exception thrown
CheckFrameForClose(channels, connected, frame, channel) ==
  IF frame.frame_type = AMQP_FRAME_METHOD /\ frame.id = AMQP_CHANNEL_CLOSE_METHOD
    THEN [channels |-> FinishCloseChannel(channels, channel), connected |-> connected,
          sent |-> <<Method(channel, AMQP_CHANNEL_CLOSE_OK_METHOD)>>,
          outcome |-> "ChannelClosedByBroker"]
  ELSE IF frame.frame_type = AMQP_FRAME_METHOD /\ frame.id = AMQP_CONNECTION_CLOSE_METHOD
    THEN [channels |-> channels, connected |-> FALSE,
          sent |-> <<Method(0, AMQP_CONNECTION_CLOSE_OK_METHOD)>>,
          outcome |-> "ConnectionClosedByBroker"]
  ELSE [channels |-> channels, connected |-> connected, sent |-> <<>>, outcome |-> "ok"]

\* MaybeReleaseBuffersOnChannel: the channels handed to the transport afterwards
MaybeReleaseBuffersOnChannel(rel, q, channel) ==
  IF FindOnChannel(q, 1, channel) = 0 THEN rel \cup {channel} ELSE rel

\* ----------------------------------------------------- consumer registry
\* m_consumer_channel_map.find(consumer_tag): the entries found, {} for end()
FindConsumer(consumers, consumer_tag) == { e \in consumers : e.first = consumer_tag }

\* AddConsumer: std::map::insert keeps an entry the tag already has
AddConsumer(consumers, consumer_tag, channel) ==
  IF FindConsumer(consumers, consumer_tag) # {} THEN consumers
  ELSE consumers \cup {[first |-> consumer_tag, second |-> channel]}

\* A RemoveConsumer that answers an unknown tag with channel 0.
RemoveConsumerDefault(consumers, consumer_tag) ==
  LET found == FindConsumer(consumers, consumer_tag) IN
  IF found = {} THEN [consumers |-> consumers, id |-> 0, outcome |-> "ok"]
  ELSE LET it == CHOOSE e \in found : TRUE IN
       [consumers |-> consumers \ {it}, id |-> it.second, outcome |-> "ok"]

\* RemoveConsumer: the registry afterwards, the channel returned, how it ended
RemoveConsumer(consumers, consumer_tag) ==
  LET found == FindConsumer(consumers, consumer_tag) IN
  IF found = {}
    THEN [consumers |-> consumers, id |-> 0, outcome |-> "ConsumerTagNotFoundException"]
  ELSE LET it == CHOOSE e \in found : TRUE IN
       [consumers |-> consumers \ {it}, id |-> it.second, outcome |-> "ok"]

\* GetConsumerChannel: the channel returned, how it ended
GetConsumerChannel(consumers, consumer_tag) ==
  LET found == FindConsumer(consumers, consumer_tag) IN
  IF found = {}
    THEN [id |-> 0, outcome |-> "ConsumerTagNotFoundException"]
  ELSE LET it == CHOOSE e \in found : TRUE IN [id |-> it.second, outcome |-> "ok"]

\* A test of the recorded tag that never finds one.
DirectReplySubscribedNever(state) == FALSE

\* !state.direct_reply_tag.empty()
DirectReplySubscribed(state) == state.direct_reply_tag # ""

\* amqp_basic_consume_t as MaybeSubscribeToDirectReply fills it in
DirectReplyConsume(channel) ==
  [channel |-> channel, method |-> AMQP_BASIC_CONSUME_METHOD,
   queue |-> "amq.rabbitmq.reply-to", consumer_tag |-> "",
   no_local |-> TRUE, no_ack |-> TRUE, exclusive |-> TRUE, nowait |-> FALSE]

\* ------------------------------------------------------- confirm tracker
\* An ack branch that banks the whole difference.
AckStateBanksDiff(state, delivery_tag) ==
  IF delivery_tag <= state.last_delivery_tag THEN state
  ELSE [state EXCEPT !.last_delivery_tag = delivery_tag,
                     !.unconsumed_ack = delivery_tag - state.last_delivery_tag]

\* An ack branch that records the acked tag whatever it is.
AckStateRewinds(state, delivery_tag) ==
  LET diff == delivery_tag - state.last_delivery_tag IN
  [state EXCEPT !.last_delivery_tag = delivery_tag,
                !.unconsumed_ack = IF diff > 1 THEN diff - 1 ELSE @]

\* the basic.ack branch of GetAckOnChannel on one channel_state_t
AckState(state, delivery_tag) ==
  IF delivery_tag <= state.last_delivery_tag THEN state
  ELSE LET diff == delivery_tag - state.last_delivery_tag IN
       [state EXCEPT !.last_delivery_tag = delivery_tag,
                     !.unconsumed_ack = IF diff > 1 THEN diff - 1 ELSE @]

\* the basic.nack branch
NackState(state, delivery_tag) == [state EXCEPT !.last_delivery_tag = delivery_tag]

\* A shortcut that leaves the banked acks as they are.
BankedStateKept(state) == state

\* the banked-ack shortcut
BankedState(state) == [state EXCEPT !.unconsumed_ack = @ - 1]

\* A MessageRejectedException that does not carry the tag.
MessageRejectedExceptionTagless(delivery_tag) == NoException

\* MessageRejectedException message_rejected(return_method->delivery_tag)
MessageRejectedException(delivery_tag) == [NoException EXCEPT !.delivery_tag = delivery_tag]

\* A MessageReturnedException that swaps exchange and routing key.
MessageReturnedExceptionSwapped(message, return_method) ==
  [message |-> message, reply_code |-> return_method.reply_code,
   reply_text |-> return_method.reply_text, exchange |-> return_method.routing_key,
   routing_key |-> return_method.exchange, delivery_tag |-> 0]

\* MessageReturnedException as built by CreateMessageReturnedException
MessageReturnedException(message, return_method) ==
  [message |-> message, reply_code |-> return_method.reply_code,
   reply_text |-> return_method.reply_text, exchange |-> return_method.exchange,
   routing_key |-> return_method.routing_key, delivery_tag |-> 0]

\* -------------------------------------------------------------- actions
\* History of the confirm waits of one channel: diff is what the last
\* basic.ack advanced last_delivery_tag by, nth counts the confirm waits that
\* ended on the channel since, up to diff.
NoAcked == [diff |-> 0, nth |-> 0]
NoteAck(diff) == [diff |-> diff, nth |-> 0]
NoteWait(h) == IF h.nth < h.diff THEN [h EXCEPT !.nth = @ + 1] ELSE NoAcked

Set3(channels, last_used, connected, queue, delivered, p, o, r, s, rel, h, a, consumers, rem, pub) ==
  /\ channel_max' = channel_max
  /\ m_channels' = channels
  /\ m_last_used_channel' = last_used
  /\ m_is_connected' = connected
  /\ m_frame_queue' = queue
  /\ m_delivered_messages' = delivered
  /\ pc' = p
  /\ op' = o
  /\ ret' = r
  /\ sent' = s
  /\ released' = rel
  /\ held' = h
  /\ acked' = a
  /\ m_consumer_channel_map' = consumers
  /\ removed' = rem
  /\ published' = pub

\* A step that leaves the count of publishes alone.
Set2(channels, last_used, connected, queue, delivered, p, o, r, s, rel, h, a, consumers, rem) ==
  Set3(channels, last_used, connected, queue, delivered, p, o, r, s, rel, h, a, consumers,
       rem, published)

\* A step that leaves the consumer registry alone.
Set(channels, last_used, connected, queue, delivered, p, o, r, s, rel, h, a) ==
  Set2(channels, last_used, connected, queue, delivered, p, o, r, s, rel, h, a,
       m_consumer_channel_map, removed)

\* How operation o ended; a confirm wait also reports its place after the
\* last cumulative ack of its channel.
Result(o, outcome) ==
  LET confirm == o.name = "GetAckOnChannel"
      h == IF confirm THEN NoteWait(acked[o.channel]) ELSE NoAcked
  IN [NoRet EXCEPT !.name = o.name, !.channel = o.channel, !.outcome = outcome,
                   !.read = o.read, !.queued = o.queued, !.diff = h.diff, !.nth = h.nth,
                   !.frames = o.frames, !.consumer_tag = o.consumer_tag,
                   !.reply = o.reply,
                   !.tag_before = IF confirm THEN m_channels[o.channel].last_delivery_tag
                                  ELSE 0]

\* Operation o has obtained frame f.
Obtained(o, f) == [o EXCEPT !.frames = Append(@, f)]

\* How operation o ended, f being the last frame it obtained.
Ended(o, outcome, f) == Result(Obtained(o, f), outcome)

\* A constructor whose slot 0 is free for use.
SentinelOpen == ChannelState(CS_Open)

\* m_channels.push_back({CS_Used}) in the constructor: slot 0
Sentinel == ChannelState(CS_Used)

\* The engine as constructed and logged in (the constructor's state, with
\* m_is_connected set by Channel once the login succeeded), on a connection
\* whose negotiated channel-max is max.
InitWith(max) ==
  /\ channel_max = max
  /\ m_channels = [i \in {0} |-> Sentinel]
  /\ m_last_used_channel = 0
  /\ m_is_connected = TRUE
  /\ m_frame_queue = <<>>
  /\ m_delivered_messages = <<>>
  /\ pc = "idle"
  /\ op = NoOp
  /\ ret = NoRet
  /\ sent = <<>>
  /\ released = {}
  /\ held = [c \in ChannelIds |-> 0]
  /\ acked = [c \in ChannelIds |-> NoAcked]
  /\ m_consumer_channel_map = {}
  /\ removed = {}
  /\ published = [c \in ChannelIds |-> 0]

\* A CheckIsConnected that never throws.
CheckIsConnectedAlways == TRUE

\* CheckIsConnected, which every public operation of Channel calls first
CheckIsConnected == m_is_connected

\* A public operation called on a closed connection.
ConnectionClosed ==
  /\ pc = "idle"
  /\ ~CheckIsConnected
  /\ ret.outcome # "ConnectionClosedException"
  /\ Set(m_channels, m_last_used_channel, m_is_connected, m_frame_queue,
         m_delivered_messages, "idle", NoOp,
         [NoRet EXCEPT !.name = "CheckIsConnected", !.outcome = "ConnectionClosedException"],
         <<>>, {}, held, acked)

\* GetChannel, up to the first wait of CreateNewChannel
GetChannel ==
  /\ pc = "idle"
  /\ CheckIsConnected
  /\ LET o == [NoOp EXCEPT !.name = "GetChannel"]
         id == GetOpenChannel(m_channels, m_last_used_channel)
         next == GetNextChannelId(m_channels)
     IN /\ (id = 0 /\ next.outcome = "ok") => next.id \in ChannelIds
        /\ IF id # 0
             THEN Set(MarkUsed(m_channels, id), m_last_used_channel, m_is_connected,
                      m_frame_queue, m_delivered_messages, "idle", NoOp,
                      [Result([o EXCEPT !.channel = id], "ok") EXCEPT !.id = id],
                      <<>>, {}, [held EXCEPT ![id] = @ + 1], acked)
             ELSE IF next.outcome # "ok"
               THEN Set(next.channels, m_last_used_channel, m_is_connected,
                        m_frame_queue, m_delivered_messages, "idle", NoOp,
                        Result(o, next.outcome), <<>>, {}, held, acked)
               ELSE Set(next.channels, m_last_used_channel, m_is_connected,
                        m_frame_queue, m_delivered_messages, "open_ok",
                        [o EXCEPT !.channel = next.id], NoRet,
                        <<Method(next.id, AMQP_CHANNEL_OPEN_METHOD)>>, {}, held, acked)

\* ReturnChannel(channel), by a caller that holds the channel
ReturnChannelCall(channel) ==
  /\ pc = "idle"
  /\ CheckIsConnected
  /\ held[channel] > 0
  /\ LET pool == ReturnChannel(m_channels, channel)
         o == [NoOp EXCEPT !.name = "ReturnChannel", !.channel = channel]
     IN Set(pool.channels, pool.last_used, m_is_connected, m_frame_queue,
            m_delivered_messages, "idle", NoOp, Result(o, "ok"), <<>>, {},
            [held EXCEPT ![channel] = @ - 1], acked)

\* GetAckOnChannel(channel) up to its wait, by a caller that holds the
\* channel and has counted pub publishes
GetAckOnChannelFor(channel, pub) ==
  /\ pc = "idle"
  /\ CheckIsConnected
  /\ held[channel] > 0
  /\ LET o == [NoOp EXCEPT !.name = "GetAckOnChannel", !.channel = channel]
         h == NoteWait(acked[channel])
     IN IF m_channels[channel].unconsumed_ack > 0
          THEN Set3([m_channels EXCEPT ![channel] = BankedState(@)], m_last_used_channel,
                    m_is_connected, m_frame_queue, m_delivered_messages, "idle", NoOp,
                    Result(o, "ok"),
                    <<>>, {}, held, [acked EXCEPT ![channel] = h],
                    m_consumer_channel_map, removed, pub)
          ELSE Set3(m_channels, m_last_used_channel, m_is_connected, m_frame_queue,
                    m_delivered_messages, "publish_ack", o, NoRet, <<>>, {}, held, acked,
                    m_consumer_channel_map, removed, pub)

\* GetAckOnChannel(channel), the publishes not counted
GetAckOnChannel(channel) == GetAckOnChannelFor(channel, published)

\* A publish on a channel the caller holds: the message is sent and
\* GetAckOnChannel(channel) waits for the broker's verdict on it.
BasicPublish(channel) ==
  /\ published[channel] < MaxPublish
  /\ GetAckOnChannelFor(channel, [published EXCEPT ![channel] = @ + 1])

\* ReadContent(channel) up to its first wait
ReadContent(channel) ==
  /\ pc = "idle"
  /\ CheckIsConnected
  /\ held[channel] > 0
  /\ Set(m_channels, m_last_used_channel, m_is_connected, m_frame_queue,
         m_delivered_messages, "header",
         [NoOp EXCEPT !.name = "ReadContent", !.channel = channel],
         NoRet, <<>>, {}, held, acked)

\* GetNextFrameOnChannel(channel) up to its wait
GetNextFrameOnChannel(channel) ==
  /\ pc = "idle"
  /\ CheckIsConnected
  /\ held[channel] > 0
  /\ Set(m_channels, m_last_used_channel, m_is_connected, m_frame_queue,
         m_delivered_messages, "frame",
         [NoOp EXCEPT !.name = "GetNextFrameOnChannel", !.channel = channel],
         NoRet, <<>>, {}, held, acked)

\* AddConsumer(consumer_tag, channel), by a caller that holds the channel
AddConsumerCall(consumer_tag, channel) ==
  /\ pc = "idle"
  /\ CheckIsConnected
  /\ held[channel] > 0
  /\ LET o == [NoOp EXCEPT !.name = "AddConsumer", !.channel = channel,
                           !.consumer_tag = consumer_tag]
     IN Set2(m_channels, m_last_used_channel, m_is_connected, m_frame_queue,
             m_delivered_messages, "idle", NoOp, Result(o, "ok"), <<>>, {}, held, acked,
             AddConsumer(m_consumer_channel_map, consumer_tag, channel), removed)

\* RemoveConsumer(consumer_tag)
RemoveConsumerCall(consumer_tag) ==
  /\ pc = "idle"
  /\ CheckIsConnected
  /\ LET o == [NoOp EXCEPT !.name = "RemoveConsumer", !.consumer_tag = consumer_tag]
         r == RemoveConsumer(m_consumer_channel_map, consumer_tag)
     IN Set2(m_channels, m_last_used_channel, m_is_connected, m_frame_queue,
             m_delivered_messages, "idle", NoOp,
             [Result(o, r.outcome) EXCEPT !.id = r.id], <<>>, {}, held, acked,
             r.consumers,
             IF r.consumers # m_consumer_channel_map
               THEN removed \cup {consumer_tag} ELSE removed)

\* GetConsumerChannel(consumer_tag)
GetConsumerChannelCall(consumer_tag) ==
  /\ pc = "idle"
  /\ CheckIsConnected
  /\ LET o == [NoOp EXCEPT !.name = "GetConsumerChannel", !.consumer_tag = consumer_tag]
         r == GetConsumerChannel(m_consumer_channel_map, consumer_tag)
     IN Set(m_channels, m_last_used_channel, m_is_connected, m_frame_queue,
            m_delivered_messages, "idle", NoOp,
            [Result(o, r.outcome) EXCEPT !.id = r.id], <<>>, {}, held, acked)

\* MaybeSubscribeToDirectReply(channel) up to its wait, by a caller that holds
\* the channel
MaybeSubscribeToDirectReply(channel) ==
  /\ pc = "idle"
  /\ CheckIsConnected
  /\ held[channel] > 0
  /\ LET o == [NoOp EXCEPT !.name = "MaybeSubscribeToDirectReply", !.channel = channel]
     IN IF DirectReplySubscribed(m_channels[channel])
          THEN Set(m_channels, m_last_used_channel, m_is_connected, m_frame_queue,
                   m_delivered_messages, "idle", NoOp, Result(o, "ok"), <<>>, {}, held,
                   acked)
          ELSE Set(m_channels, m_last_used_channel, m_is_connected, m_frame_queue,
                   m_delivered_messages, "consume_ok", o, NoRet,
                   <<DirectReplyConsume(channel)>>, {}, held, acked)

\* GetDirectReplyToken(channel)
GetDirectReplyToken(channel) ==
  /\ pc = "idle"
  /\ CheckIsConnected
  /\ held[channel] > 0
  /\ LET o == [NoOp EXCEPT !.name = "GetDirectReplyToken", !.channel = channel,
                           !.consumer_tag = m_channels[channel].direct_reply_tag]
     IN Set(m_channels, m_last_used_channel, m_is_connected, m_frame_queue,
            m_delivered_messages, "idle", NoOp, Result(o, "ok"), <<>>, {}, held, acked)

\* The exception AmqpException::Throw(reply) builds from a server exception.
ReplyException(reply) ==
  [NoException EXCEPT !.reply_code = reply.reply_code, !.reply_text = reply.reply_text]

\* DoLogin in Channel's constructor: the transport's login, CheckRpcReply(0,
\* reply), and, the login having succeeded, SetIsConnected(true).
DoLogin(reply) ==
  /\ pc = "login"
  /\ LET o == [NoOp EXCEPT !.name = "DoLogin", !.reply = reply]
         r == CheckRpcReply(m_channels, m_is_connected, 0, reply)
     IN Set(r.channels, m_last_used_channel,
            IF r.outcome = "ok" THEN TRUE ELSE r.connected,
            m_frame_queue, m_delivered_messages, "idle", NoOp,
            [Result(o, r.outcome) EXCEPT !.exception = ReplyException(reply)],
            r.sent, {}, held, acked)

\* CheckRpcReply(channel, reply) after a synchronous transport call of an
\* operation that holds the channel
CheckRpcReplyCall(channel, reply) ==
  /\ pc = "idle"
  /\ CheckIsConnected
  /\ held[channel] > 0
  /\ LET o == [NoOp EXCEPT !.name = "CheckRpcReply", !.channel = channel,
                           !.reply = reply]
         r == CheckRpcReply(m_channels, m_is_connected, channel, reply)
     IN Set(r.channels, m_last_used_channel, r.connected, m_frame_queue,
            m_delivered_messages, "idle", NoOp,
            [Result(o, r.outcome) EXCEPT !.exception = ReplyException(reply)],
            r.sent, {},
            IF r.channels # m_channels THEN [held EXCEPT ![channel] = 0] ELSE held,
            acked)

\* --------------------------------------------------------------- waits
\* The waits in GetMethodOnChannel and the methods each accepts.
OPEN_OK == {AMQP_CHANNEL_OPEN_OK_METHOD}
CONFIRM_OK == {AMQP_CONFIRM_SELECT_OK_METHOD}
\* A confirm wait that does not accept basic.nack.
PUBLISH_ACK_WithoutNack == {AMQP_BASIC_ACK_METHOD, AMQP_BASIC_RETURN_METHOD}
PUBLISH_ACK == {AMQP_BASIC_ACK_METHOD, AMQP_BASIC_RETURN_METHOD, AMQP_BASIC_NACK_METHOD}
BASIC_ACK == {AMQP_BASIC_ACK_METHOD}
CONSUME_OK == {AMQP_BASIC_CONSUME_OK_METHOD}
MethodWaits == {"open_ok", "select_ok", "publish_ack", "return_ack", "consume_ok"}
\* The waits in GetNextFrameOnChannel.
FrameWaits == {"header", "body", "frame"}
\* The methods the wait at p accepts.
Expected(p) ==
  CASE p = "open_ok" -> OPEN_OK
    [] p = "select_ok" -> CONFIRM_OK
    [] p = "publish_ack" -> PUBLISH_ACK
    [] p = "return_ack" -> BASIC_ACK
    [] p = "consume_ok" -> CONSUME_OK
    [] OTHER -> {}

\* The queued frame the running wait takes first: its index, 0 for none.
QueuedIndex ==
  IF pc \in MethodWaits THEN FindExpected(m_frame_queue, op.channel, Expected(pc))
  ELSE IF pc \in FrameWaits THEN FindOnChannel(m_frame_queue, 1, op.channel)
  ELSE 0

\* The history of confirm waits after the running operation ended.
EndAcked(o) ==
  IF o.name = "GetAckOnChannel" THEN [acked EXCEPT ![o.channel] = NoteWait(@)] ELSE acked

\* The operation ends with an exception and no other change.
Throw(o, q, delivered, outcome, f) ==
  Set(m_channels, m_last_used_channel, m_is_connected, q, delivered, "idle", NoOp,
      Ended(o, outcome, f), sent, released, held, EndAcked(o))

\* FinishCloseChannel(channel), then the channel exception is thrown.
CloseChannelAndThrow(o, q, delivered, channel, f) ==
  Set(FinishCloseChannel(m_channels, channel), m_last_used_channel, m_is_connected,
      q, delivered, "idle", NoOp,
      Ended(o, "ChannelClosedByBroker", f),
      Append(sent, Method(channel, AMQP_CHANNEL_CLOSE_OK_METHOD)), released,
      [held EXCEPT ![channel] = 0], EndAcked(o))

\* FinishCloseConnection, then the connection exception is thrown.
CloseConnectionAndThrow(o, f) ==
  Set(m_channels, m_last_used_channel, FALSE, m_frame_queue, m_delivered_messages,
      "idle", NoOp, Ended(o, "ConnectionClosedByBroker", f),
      Append(sent, Method(0, AMQP_CONNECTION_CLOSE_OK_METHOD)), released, held,
      EndAcked(o))

\* CheckFrameForClose has thrown: r is what it did.  The acquisitions of a
\* channel it closed are over.
CloseAndThrow(o, r, f) ==
  Set(r.channels, m_last_used_channel, r.connected, m_frame_queue, m_delivered_messages,
      "idle", NoOp, Ended(o, r.outcome, f), sent \o r.sent, released,
      [c \in ChannelIds |->
         IF /\ c \in DOMAIN r.channels
            /\ r.channels[c].availability = CS_Closed
            /\ m_channels[c].availability # CS_Closed
           THEN 0 ELSE held[c]],
      EndAcked(o))

\* The caller's acquisition of the channel ends.
Release(h, channel) == [h EXCEPT ![channel] = IF @ > 0 THEN @ - 1 ELSE 0]

\* ReadContent has the whole body: it returns the message; inside
\* CreateMessageReturnedException the confirm wait goes on to the basic.ack.
ContentDone(o, q, f) ==
  IF o.name = "ReadContent"
    THEN Set(m_channels, m_last_used_channel, m_is_connected, q, m_delivered_messages,
             "idle", NoOp,
             [Ended(o, "ok", f) EXCEPT !.message = o.message],
             sent, released, held, acked)
    ELSE Set(m_channels, m_last_used_channel, m_is_connected, q, m_delivered_messages,
             "return_ack", Obtained(o, f), NoRet, sent, released, held, acked)

\* The running operation goes on with frame f, the frame its wait was for;
\* q is the frame queue without f.
Resume(o, f, q) ==
  LET channel == o.channel
      state == m_channels[channel]
  IN
  CASE pc = "open_ok" ->
         Set(m_channels, m_last_used_channel, m_is_connected, q, m_delivered_messages,
             "select_ok", Obtained(o, f), NoRet,
             Append(sent, Method(channel, AMQP_CONFIRM_SELECT_METHOD)), released, held,
             acked)
    [] pc = "select_ok" ->
         Set(MarkUsed(MarkOpen(m_channels, channel), channel), m_last_used_channel,
             m_is_connected, q, m_delivered_messages, "idle", NoOp,
             [Ended(o, "ok", f) EXCEPT !.id = channel], sent, released,
             [held EXCEPT ![channel] = @ + 1], acked)
    [] pc = "publish_ack" /\ f.id = AMQP_BASIC_NACK_METHOD ->
         LET pool == ReturnChannel([m_channels EXCEPT
                                      ![channel] = NackState(@, f.delivery_tag)], channel)
         IN Set(pool.channels, pool.last_used, m_is_connected, q, m_delivered_messages,
                "idle", NoOp,
                [Ended(o, "MessageRejectedException", f) EXCEPT
                   !.exception = MessageRejectedException(f.delivery_tag)],
                sent, MaybeReleaseBuffersOnChannel(released, q, channel),
                Release(held, channel), EndAcked(o))
    [] pc = "publish_ack" /\ f.id = AMQP_BASIC_RETURN_METHOD ->
         Set(m_channels, m_last_used_channel, m_is_connected, q, m_delivered_messages,
             "header", [Obtained(o, f) EXCEPT !.return_method = f.returned], NoRet,
             sent, released, held, acked)
    [] pc = "publish_ack" /\ f.id = AMQP_BASIC_ACK_METHOD ->
         LET pool == ReturnChannel([m_channels EXCEPT
                                      ![channel] = AckState(@, f.delivery_tag)], channel)
         IN Set(pool.channels, pool.last_used, m_is_connected, q, m_delivered_messages,
                "idle", NoOp,
                Ended(o, "ok", f),
                sent, MaybeReleaseBuffersOnChannel(released, q, channel),
                Release(held, channel),
                IF f.delivery_tag > state.last_delivery_tag
                  THEN [acked EXCEPT
                          ![channel] = NoteAck(f.delivery_tag - state.last_delivery_tag)]
                  ELSE EndAcked(o))
    [] pc = "return_ack" ->
         LET pool == ReturnChannel(m_channels, channel)
         IN Set(pool.channels, pool.last_used, m_is_connected, q, m_delivered_messages,
                "idle", NoOp,
                [Ended(o, "MessageReturnedException", f) EXCEPT
                   !.exception = MessageReturnedException(o.message, o.return_method)],
                sent, MaybeReleaseBuffersOnChannel(released, q, channel),
                Release(held, channel), EndAcked(o))
    [] pc = "header" ->
         IF f.frame_type # AMQP_FRAME_HEADER
           THEN Throw(o, q, m_delivered_messages, "UnexpectedFrameType", f)
         ELSE IF 0 < f.body_size
           THEN Set(m_channels, m_last_used_channel, m_is_connected, q,
                    m_delivered_messages, "body",
                    [Obtained(o, f) EXCEPT !.body_size = f.body_size],
                    NoRet, sent, released, held, acked)
         ELSE ContentDone([o EXCEPT !.body_size = f.body_size], q, f)
    [] pc = "body" ->
         LET o2 == [o EXCEPT !.message = AppendBody(@, f.body_fragment)]
         IN IF f.frame_type # AMQP_FRAME_BODY
              THEN Throw(o, q, m_delivered_messages, "UnexpectedFrameType", f)
            ELSE IF Len(o2.message) < o2.body_size
              THEN Set(m_channels, m_last_used_channel, m_is_connected, q,
                       m_delivered_messages, "body", Obtained(o2, f), NoRet, sent,
                       released, held, acked)
            ELSE ContentDone(o2, q, f)
    [] pc = "frame" ->
         Set(m_channels, m_last_used_channel, m_is_connected, q, m_delivered_messages,
             "idle", NoOp, Ended(o, "ok", f), sent, released, held, acked)
    [] pc = "consume_ok" ->
         Set2([m_channels EXCEPT ![channel].direct_reply_tag = f.consumer_tag],
              m_last_used_channel, m_is_connected, q, m_delivered_messages,
              "idle", NoOp,
              [Ended(o, "ok", f) EXCEPT !.consumer_tag = f.consumer_tag],
              sent, MaybeReleaseBuffersOnChannel(released, q, channel), held, acked,
              AddConsumer(m_consumer_channel_map, f.consumer_tag, channel), removed)

\* The running wait finds its frame in m_frame_queue (the find_if and erase
\* at the head of GetMethodOnChannel and of GetNextFrameOnChannel).
TakeQueuedFrame ==
  /\ pc # "idle"
  /\ QueuedIndex # 0
  /\ LET f == m_frame_queue[QueuedIndex]
         q == Erase(m_frame_queue, QueuedIndex)
         o == [op EXCEPT !.queued = TRUE]
     IN IF pc \in FrameWaits /\ is_method_on_channel(f, AMQP_CHANNEL_CLOSE_METHOD, o.channel)
          THEN CloseChannelAndThrow(o, q, m_delivered_messages, o.channel, f)
          ELSE Resume(o, f, q)

\* A frame that is not what the wait is for is queued, and the wait goes on,
\* unless AddToFrameQueue throws.
Park(o, f, limit) ==
  LET added == AddToFrameQueue(m_frame_queue, m_delivered_messages, f) IN
  /\ Len(added.queue) <= limit
  /\ Len(added.delivered) <= MaxDelivered
  /\ IF added.outcome = "ok"
       THEN Set(m_channels, m_last_used_channel, m_is_connected, added.queue,
                added.delivered, pc, [o EXCEPT !.parked = f], NoRet, sent, released,
                held, acked)
     ELSE IF added.outcome = "ChannelClosed"
       THEN CloseChannelAndThrow(o, added.queue, added.delivered, f.channel, f)
     ELSE Throw(o, added.queue, added.delivered, added.outcome, f)

\* The running wait reads the next frame from the transport
\* (GetNextFrameFromBroker inside GetNextFrameFromBrokerOnChannel) and checks
\* it for a close with the channel the frame is addressed to; at most limit
\* frames wait in the queue.
ReceiveFrameUpTo(frames, limit) ==
  /\ pc \in MethodWaits \cup FrameWaits
  /\ QueuedIndex = 0
  /\ \E f \in frames :
       /\ f.channel \in DOMAIN m_channels
       /\ LET o == [op EXCEPT !.read = TRUE]
              closed == CheckFrameForClose(m_channels, m_is_connected, f, f.channel)
          IN
          IF closed.outcome # "ok"
            THEN CloseAndThrow(o, closed, f)
          ELSE IF /\ is_on_channel(f, o.channel)
                  /\ \/ pc \in FrameWaits
                     \/ is_expected_method_on_channel(f, o.channel, Expected(pc))
            THEN Resume(o, f, m_frame_queue)
          ELSE Park(o, f, limit)

ReceiveFrame(frames) == ReceiveFrameUpTo(frames, MaxQueue)

\* The frames of channel opening and closing.
PoolFrames ==
  { MethodFrame(c, id, 0, NoReturn) :
      c \in ChannelIds,
      id \in {AMQP_CHANNEL_OPEN_OK_METHOD, AMQP_CONFIRM_SELECT_OK_METHOD,
              AMQP_CHANNEL_CLOSE_METHOD} }
  \cup { MethodFrame(0, AMQP_CONNECTION_CLOSE_METHOD, 0, NoReturn) }

\* The channel pool: channels are acquired, released and closed.
InitPool == InitWith(MaxChannels)
NextPool ==
  \/ GetChannel
  \/ \E channel \in ChannelIds : ReturnChannelCall(channel)
  \/ ConnectionClosed
  \/ TakeQueuedFrame
  \/ ReceiveFrame(PoolFrames)
SpecPool == InitPool /\ [][NextPool]_vars

\* The channel pool under every channel-max the transport can report up to
\* MaxChannels, 0 (no limit negotiated) included.
InitLimits == \E max \in 0..MaxChannels : InitWith(max)
SpecLimits == InitLimits /\ [][NextPool]_vars

\* The engine from its construction: the login, then channels acquired and
\* released and synchronous transport calls checked, with a broker that can
\* close a channel or the connection at any time.
InitLogin ==
  /\ channel_max = MaxChannels
  /\ m_channels = [i \in {0} |-> Sentinel]
  /\ m_last_used_channel = 0
  /\ m_is_connected = FALSE
  /\ m_frame_queue = <<>>
  /\ m_delivered_messages = <<>>
  /\ pc = "login"
  /\ op = NoOp
  /\ ret = NoRet
  /\ sent = <<>>
  /\ released = {}
  /\ held = [c \in ChannelIds |-> 0]
  /\ acked = [c \in ChannelIds |-> NoAcked]
  /\ m_consumer_channel_map = {}
  /\ removed = {}
  /\ published = [c \in ChannelIds |-> 0]
NextLogin ==
  \/ \E reply \in LoginReplies : DoLogin(reply)
  \/ GetChannel
  \/ \E channel \in ChannelIds : ReturnChannelCall(channel)
  \/ \E channel \in ChannelIds, reply \in RpcReplies : CheckRpcReplyCall(channel, reply)
  \/ ConnectionClosed
  \/ TakeQueuedFrame
  \/ ReceiveFrame(PoolFrames)
SpecLogin == InitLogin /\ [][NextLogin]_vars

\* The consumer registry: consumers are registered on held channels, looked
\* up and removed.
InitConsumers == InitWith(MaxChannels)
NextConsumers ==
  \/ GetChannel
  \/ \E consumer_tag \in ConsumerTags, channel \in ChannelIds :
       AddConsumerCall(consumer_tag, channel)
  \/ \E consumer_tag \in ConsumerTags : RemoveConsumerCall(consumer_tag)
  \/ \E consumer_tag \in ConsumerTags : GetConsumerChannelCall(consumer_tag)
  \/ ConnectionClosed
  \/ TakeQueuedFrame
  \/ ReceiveFrame(PoolFrames)
SpecConsumers == InitConsumers /\ [][NextConsumers]_vars

\* The consumer tags in use: registered, recorded on a channel, or carried
\* by a queued basic.consume-ok.
TagsInUse ==
  { e.first : e \in m_consumer_channel_map }
  \cup { m_channels[c].direct_reply_tag : c \in DOMAIN m_channels }
  \cup { m_frame_queue[i].consumer_tag : i \in 1..Len(m_frame_queue) }

\* Direct reply-to: the broker answers basic.consume with a consumer tag it
\* has not assigned before.
DirectReplyFrames ==
  PoolFrames
  \cup { ConsumeOkFrame(c, ctag) : c \in ChannelIds, ctag \in ConsumerTags \ TagsInUse }
InitDirectReply == InitWith(MaxChannels)
NextDirectReply ==
  \/ GetChannel
  \/ \E channel \in ChannelIds : MaybeSubscribeToDirectReply(channel)
  \/ \E channel \in ChannelIds : GetDirectReplyToken(channel)
  \/ ConnectionClosed
  \/ TakeQueuedFrame
  \/ ReceiveFrame(DirectReplyFrames)
SpecDirectReply == InitDirectReply /\ [][NextDirectReply]_vars

\* Frames a broker can send at any time: it closes a channel or the connection.
CloseFrames ==
  { MethodFrame(c, AMQP_CHANNEL_CLOSE_METHOD, 0, NoReturn) : c \in ChannelIds }
  \cup { MethodFrame(0, AMQP_CONNECTION_CLOSE_METHOD, 0, NoReturn) }
MethodsOf(ids) ==
  { f \in BrokerFrames : f.frame_type = AMQP_FRAME_METHOD /\ f.id \in ids }
ContentFrames ==
  { f \in BrokerFrames : f.frame_type \in {AMQP_FRAME_HEADER, AMQP_FRAME_BODY} }

\* The confirm tracker of one channel: publishes that the broker acks or
\* nacks, on a connection with a single channel.
ConfirmFrames ==
  CloseFrames \cup MethodsOf({AMQP_CHANNEL_OPEN_OK_METHOD, AMQP_CONFIRM_SELECT_OK_METHOD,
                              AMQP_BASIC_ACK_METHOD, AMQP_BASIC_NACK_METHOD})
InitConfirm == InitWith(1)
NextConfirm ==
  \/ GetChannel
  \/ \E channel \in ChannelIds : GetAckOnChannel(channel)
  \/ ConnectionClosed
  \/ TakeQueuedFrame
  \/ ReceiveFrame(ConfirmFrames)
SpecConfirm == InitConfirm /\ [][NextConfirm]_vars

\* Returned publishes on a connection with a single channel.  Content frames
\* follow the method that carries content: header and body frames come while
\* the engine reads the returned message, method frames otherwise.  The
\* broker acks with delivery tag 1; the arithmetic on tags is SpecConfirm's.
ReturnFrames ==
  CloseFrames \cup
  (IF pc \in FrameWaits
     THEN ContentFrames
     ELSE { f \in MethodsOf({AMQP_CHANNEL_OPEN_OK_METHOD, AMQP_CONFIRM_SELECT_OK_METHOD,
                              AMQP_BASIC_ACK_METHOD, AMQP_BASIC_RETURN_METHOD}) :
              f.delivery_tag <= 1 })
InitReturn == InitWith(1)
NextReturn ==
  \/ GetChannel
  \/ \E channel \in ChannelIds : GetAckOnChannel(channel)
  \/ ConnectionClosed
  \/ TakeQueuedFrame
  \/ ReceiveFrame(ReturnFrames)
SpecReturn == InitReturn /\ [][NextReturn]_vars

\* Publishes on a connection with a single channel and a broker that keeps
\* to the protocol: it numbers the publishes of the channel 1, 2, 3, ... and
\* answers the n-th with basic.ack or basic.nack carrying tag n, or with
\* basic.return, the returned content and then basic.ack with tag n.
VerdictFrames ==
  LET channel == op.channel
      n == published[channel]
  IN IF pc \in {"open_ok", "select_ok"}
       THEN { f \in MethodsOf(Expected(pc)) : f.channel = channel }
     ELSE IF pc = "header"
       THEN { f \in ContentFrames : f.channel = channel /\ f.frame_type = AMQP_FRAME_HEADER }
     ELSE IF pc = "body"
       THEN { f \in ContentFrames : f.channel = channel /\ f.frame_type = AMQP_FRAME_BODY }
     ELSE IF pc = "publish_ack"
       THEN { MethodFrame(channel, AMQP_BASIC_ACK_METHOD, n, NoReturn),
              MethodFrame(channel, AMQP_BASIC_NACK_METHOD, n, NoReturn) }
            \cup { f \in MethodsOf({AMQP_BASIC_RETURN_METHOD}) : f.channel = channel }
     ELSE IF pc = "return_ack"
       THEN { MethodFrame(channel, AMQP_BASIC_ACK_METHOD, n, NoReturn) }
     ELSE {}
InitVerdict == InitWith(1)
NextVerdict ==
  \/ GetChannel
  \/ \E channel \in ChannelIds : BasicPublish(channel)
  \/ ReceiveFrame(VerdictFrames)
SpecVerdict == InitVerdict /\ [][NextVerdict]_vars

\* Confirm waits under a fair transport, on a connection with two channels:
\* the publisher publishes on channel 1 and channel 2 carries other traffic.
\* The broker answers the running wait on its channel: the replies of
\* channel.open and confirm.select, and for the n-th publish one of
\* basic.ack(n), basic.nack(n), basic.return with its content and
\* basic.ack(n), channel.close on the channel, or connection.close.  It
\* sends one answer per publish: none while an answer to the publish waits
\* in the frame queue.
AnswerQueued(channel) ==
  \E i \in 1..Len(m_frame_queue) :
    is_expected_method_on_channel(m_frame_queue[i], channel,
      {AMQP_BASIC_ACK_METHOD, AMQP_BASIC_NACK_METHOD, AMQP_BASIC_RETURN_METHOD})
AwaitedFrames ==
  LET channel == op.channel
      n == published[channel]
  IN IF pc \in {"open_ok", "select_ok"}
       THEN { f \in MethodsOf(Expected(pc)) : f.channel = channel }
     ELSE IF pc = "header"
       THEN { f \in ContentFrames : f.channel = channel /\ f.frame_type = AMQP_FRAME_HEADER }
     ELSE IF pc = "body"
       THEN { f \in ContentFrames : f.channel = channel /\ f.frame_type = AMQP_FRAME_BODY }
     ELSE IF pc = "publish_ack" /\ ~AnswerQueued(channel)
       THEN { MethodFrame(channel, AMQP_BASIC_ACK_METHOD, n, NoReturn),
              MethodFrame(channel, AMQP_BASIC_NACK_METHOD, n, NoReturn),
              MethodFrame(channel, AMQP_CHANNEL_CLOSE_METHOD, 0, NoReturn),
              MethodFrame(0, AMQP_CONNECTION_CLOSE_METHOD, 0, NoReturn) }
            \cup { f \in MethodsOf({AMQP_BASIC_RETURN_METHOD}) : f.channel = channel }
     ELSE IF pc = "return_ack"
       THEN { MethodFrame(channel, AMQP_BASIC_ACK_METHOD, n, NoReturn) }
     ELSE {}
\* What the broker sends on the other channels meanwhile.
OtherChannelFrames ==
  { f \in MethodsOf({AMQP_BASIC_ACK_METHOD, AMQP_CHANNEL_CLOSE_METHOD}) :
      f.channel # op.channel /\ f.delivery_tag <= 1 }
ReceiveAwaited == ReceiveFrame(AwaitedFrames)
ReceiveOther == ReceiveFrame(OtherChannelFrames)
InitFair == InitWith(2)
NextFair ==
  \/ GetChannel
  \/ BasicPublish(1)
  \/ TakeQueuedFrame
  \/ ReceiveAwaited
  \/ ReceiveOther
\* The transport delivers the frame the broker has sent for the running
\* wait, and a wait that finds its frame in the queue takes it.
FairTransport == WF_vars(ReceiveAwaited) /\ WF_vars(TakeQueuedFrame)
SpecFair == InitFair /\ [][NextFair]_vars /\ FairTransport

\* Deliveries to consumers: frames of one channel arrive while the engine
\* waits on another.
QueueFrames ==
  CloseFrames \cup ContentFrames
  \cup MethodsOf({AMQP_CHANNEL_OPEN_OK_METHOD, AMQP_CONFIRM_SELECT_OK_METHOD,
                  AMQP_BASIC_DELIVER_METHOD})
InitQueue == InitWith(MaxChannels)
NextQueue ==
  \/ GetChannel
  \/ \E channel \in ChannelIds : GetNextFrameOnChannel(channel)
  \/ ConnectionClosed
  \/ TakeQueuedFrame
  \/ ReceiveFrame(QueueFrames)
SpecQueue == InitQueue /\ [][NextQueue]_vars

\* Deliveries to a consumer on channel 1, the only channel of the connection:
\* the frames of its deliveries arrive while the engine waits for the reply
\* to channel.open or confirm.select.  The broker answers the method that
\* was sent, on the channel it was sent on, and the octets of the deliveries are all the same (the
\* detector counts lengths only).
DeliverFrames ==
  CloseFrames
  \cup { f \in MethodsOf(Expected(pc)) : f.channel = op.channel }
  \cup { f \in MethodsOf({AMQP_BASIC_DELIVER_METHOD}) : f.channel = 1 }
  \cup { f \in ContentFrames :
           /\ f.channel = 1
           /\ \A i \in 1..Len(f.body_fragment) : f.body_fragment[i] = "a" }
InitDeliver == InitWith(1)
NextDeliver ==
  \/ GetChannel
  \/ \E channel \in ChannelIds : GetNextFrameOnChannel(channel)
  \/ ConnectionClosed
  \/ TakeQueuedFrame
  \/ ReceiveFrameUpTo(DeliverFrames, MaxPending)
SpecDeliver == InitDeliver /\ [][NextDeliver]_vars

\* Content reassembly on a connection with a single channel.
ReadFrames ==
  CloseFrames \cup ContentFrames
  \cup MethodsOf({AMQP_CHANNEL_OPEN_OK_METHOD, AMQP_CONFIRM_SELECT_OK_METHOD})
InitRead == InitWith(1)
NextRead ==
  \/ GetChannel
  \/ \E channel \in ChannelIds : ReadContent(channel)
  \/ ConnectionClosed
  \/ TakeQueuedFrame
  \/ ReceiveFrame(ReadFrames)
SpecRead == InitRead /\ [][NextRead]_vars

\* Content whose body frames are as long as the transport's frame size lets
\* them be: one body frame can carry a whole body of up to MaxBody octets,
\* whatever size the header before it declares.  The content is read by
\* ReadContent or, after a basic.deliver parked during GetChannel's waits, by
\* AddToFrameQueue.  The octets are all the same (only lengths are counted).
WholeBodyFrames ==
  CloseFrames
  \cup { f \in MethodsOf(Expected(pc)) : f.channel = op.channel }
  \cup MethodsOf({AMQP_BASIC_DELIVER_METHOD})
  \cup { HeaderFrame(c, n) : c \in ChannelIds, n \in 0..MaxBody }
  \cup { BodyFrame(c, [i \in 1..k |-> "a"]) : c \in ChannelIds, k \in 1..MaxBody }
InitContent == InitWith(1)
NextContent ==
  \/ GetChannel
  \/ \E channel \in ChannelIds : ReadContent(channel)
  \/ ConnectionClosed
  \/ TakeQueuedFrame
  \/ ReceiveFrame(WholeBodyFrames)
SpecContent == InitContent /\ [][NextContent]_vars

\* ------------------------------------------------------------ properties
\* C1: GetChannel never hands out an id whose slot is Used: no channel id is
\* held by two acquisitions at once, and a held id's slot is Used.  (An
\* acquisition ends with ReturnChannel, or when the broker closes the channel.)
C1_NoDoubleIssue ==
  \A c \in ChannelIds :
    /\ held[c] <= 1
    /\ held[c] = 1 => (c \in DOMAIN m_channels /\ m_channels[c].availability = CS_Used)

\* Channel 1 is held and GetChannel, passing over it, has just issued channel 2.
C1_Witness ==
  /\ ret.name = "GetChannel" /\ ret.outcome = "ok" /\ ret.id = 2
  /\ held[1] = 1 /\ held[2] = 1
  /\ m_channels[1].availability = CS_Used /\ m_channels[2].availability = CS_Used

\* s is a leading part of t
IsPrefix(s, t) == Len(s) <= Len(t) /\ SubSeq(t, 1, Len(s)) = s

\* The frames parked for channel a have, in this step, been promoted to a
\* delivered envelope of a.
Promoted(a) ==
  /\ Len(m_delivered_messages') = Len(m_delivered_messages) + 1
  /\ m_delivered_messages'[Len(m_delivered_messages')].channel = a

\* C2: while an operation waits on channel B, the frames parked for another
\* channel A are neither lost nor reordered: a step of the wait leaves them
\* in place, in order, with new arrivals behind them (unless it hands a
\* complete delivery of A to the delivered messages), so that draining A
\* afterwards yields them in arrival order.
C2_ParkedFramesKept ==
  [][ pc # "idle" =>
        \A a \in ChannelIds \ {op.channel} :
          \/ IsPrefix(OnChannel(m_frame_queue, a), OnChannel(m_frame_queue', a))
          \/ Promoted(a) ]_vars

\* The state of the channel the last operation was on.
RetState == m_channels[ret.channel]

\* The last frame an operation obtained.
LastFrame(r) == IF r.frames = <<>> THEN NoFrame ELSE r.frames[Len(r.frames)]

\* The last operation was a confirm wait, and frames are the frames it got.
ConfirmWait(r) == r.name = "GetAckOnChannel"

\* The last operation was a confirm wait that the broker's basic.ack with a
\* tag above last_delivery_tag ended.
AckedAhead ==
  /\ ConfirmWait(ret)
  /\ Len(ret.frames) = 1
  /\ ret.frames[1].id = AMQP_BASIC_ACK_METHOD
  /\ ret.frames[1].delivery_tag > ret.tag_before

\* The broker ended the last operation: it closed the channel or the
\* connection, or nacked the publish.
EndedByBroker ==
  LastFrame(ret).id \in {AMQP_CHANNEL_CLOSE_METHOD, AMQP_CONNECTION_CLOSE_METHOD,
                         AMQP_BASIC_NACK_METHOD}

\* C3 as stated: an ack with tag T > T0 sets last_delivery_tag = T and
\* unconsumed_ack = T - T0 - 1, and each of the next diff = T - T0 confirm
\* waits on the channel succeeds without a transport read (waits that the
\* broker ends with a close or a nack aside).
C3_NextDiffWaits ==
  /\ AckedAhead =>
       /\ RetState.last_delivery_tag = ret.frames[1].delivery_tag
       /\ RetState.unconsumed_ack = ret.frames[1].delivery_tag - ret.tag_before - 1
  /\ ( /\ ret.name = "GetAckOnChannel"
       /\ 1 <= ret.nth /\ ret.nth <= ret.diff
       /\ ~EndedByBroker )
     => (ret.outcome = "ok" /\ ~ret.read)

\* C3: an ack with tag T > T0 sets last_delivery_tag = T and unconsumed_ack =
\* T - T0 - 1, and each of the next diff - 1 = T - T0 - 1 confirm waits on the
\* channel succeeds without a transport read.
C3_NextBankedWaits ==
  /\ AckedAhead =>
       /\ RetState.last_delivery_tag = ret.frames[1].delivery_tag
       /\ RetState.unconsumed_ack = ret.frames[1].delivery_tag - ret.tag_before - 1
  /\ (ret.name = "GetAckOnChannel" /\ 1 <= ret.nth /\ ret.nth <= ret.diff - 1) =>
       (ret.outcome = "ok" /\ ~ret.read)

\* After tag 1 was acked, an ack with tag 3 has banked one ack, and the
\* confirm wait after it has succeeded without a read.
C3_Witness ==
  /\ ret.name = "GetAckOnChannel" /\ ret.outcome = "ok" /\ ~ret.read
  /\ ret.diff = 2 /\ ret.nth = 1
  /\ ret.tag_before = 3
  /\ RetState.last_delivery_tag = 3 /\ RetState.unconsumed_ack = 0

\* The channel of the confirm wait this step starts or ends.
ConfirmChannel == IF ret'.name = "GetAckOnChannel" THEN ret'.channel ELSE op'.channel

\* C4: a confirm wait called with unconsumed_ack = k > 0 returns success at
\* once, without a frame from the transport or the queue, and leaves
\* unconsumed_ack = k - 1; an ack with tag 3 on a fresh channel leaves
\* unconsumed_ack = 2, and of the waits after an ack that advanced the tag by
\* 3 exactly the first two take no frame.
C4_BankedAcks ==
  [][ /\ ( /\ pc = "idle"
           /\ (ret'.name = "GetAckOnChannel" \/ op'.name = "GetAckOnChannel")
           /\ m_channels[ConfirmChannel].unconsumed_ack > 0 )
        => ( /\ pc' = "idle"
             /\ ret'.outcome = "ok"
             /\ ~ret'.read /\ ~ret'.queued
             /\ m_frame_queue' = m_frame_queue
             /\ m_channels'[ConfirmChannel].unconsumed_ack =
                  m_channels[ConfirmChannel].unconsumed_ack - 1 )
      /\ ( /\ ret'.name = "GetAckOnChannel"
           /\ Len(ret'.frames) = 1
           /\ ret'.frames[1].id = AMQP_BASIC_ACK_METHOD
           /\ ret'.frames[1].delivery_tag = 3 /\ ret'.tag_before = 0 )
        => m_channels'[ret'.channel].unconsumed_ack = 2
      /\ (ret'.name = "GetAckOnChannel" /\ ret'.diff = 3)
        => ((ret'.nth \in {1, 2}) <=> (~ret'.read /\ ~ret'.queued)) ]_vars

\* Tag 3 was acked on a fresh channel and the second confirm wait after it
\* has used up the banked acks.
C4_Witness ==
  /\ ret.name = "GetAckOnChannel" /\ ret.outcome = "ok" /\ ~ret.read /\ ~ret.queued
  /\ ret.diff = 3 /\ ret.nth = 2
  /\ RetState.last_delivery_tag = 3 /\ RetState.unconsumed_ack = 0

\* C5: a confirm wait ended by a basic.ack with a tag above last_delivery_tag
\* reports success, last_delivery_tag is the acked tag, and the channel is
\* Open and the last used one; tag 1 on a fresh channel leaves nothing banked.
C5_AckSucceeds ==
  AckedAhead =>
    /\ ret.outcome = "ok"
    /\ RetState.last_delivery_tag = ret.frames[1].delivery_tag
    /\ RetState.availability = CS_Open
    /\ m_last_used_channel = ret.channel
    /\ (ret.frames[1].delivery_tag = 1 /\ ret.tag_before = 0) => RetState.unconsumed_ack = 0

\* The first publish on channel 1 was acked with tag 1.
C5_Witness ==
  /\ AckedAhead /\ ret.channel = 1 /\ ret.outcome = "ok"
  /\ ret.frames[1].delivery_tag = 1 /\ ret.tag_before = 0
  /\ RetState.last_delivery_tag = 1 /\ RetState.unconsumed_ack = 0
  /\ RetState.availability = CS_Open

\* C6: a confirm wait that gets a basic.nack throws MessageRejectedException
\* with the nacked delivery tag, and the channel's slot is then Open.
C6_NackRejects ==
  (ConfirmWait(ret) /\ LastFrame(ret).id = AMQP_BASIC_NACK_METHOD) =>
    /\ ret.outcome = "MessageRejectedException"
    /\ ret.exception.delivery_tag = LastFrame(ret).delivery_tag
    /\ RetState.availability = CS_Open

\* Delivery tag 2 was nacked.
C6_Witness ==
  /\ ret.name = "GetAckOnChannel" /\ ret.outcome = "MessageRejectedException"
  /\ LastFrame(ret).id = AMQP_BASIC_NACK_METHOD /\ LastFrame(ret).delivery_tag = 2
  /\ ret.exception.delivery_tag = 2
  /\ RetState.availability = CS_Open

\* s1 \o s2 \o ... of a sequence of sequences
RECURSIVE Concat(_)
Concat(ss) == IF ss = <<>> THEN <<>> ELSE Head(ss) \o Concat(Tail(ss))

\* The body fragments of the body frames among frames, in order.
BodyFragments(frames) ==
  LET bodies == SelectSeq(frames, LAMBDA f : f.frame_type = AMQP_FRAME_BODY)
  IN [i \in 1..Len(bodies) |-> bodies[i].body_fragment]

\* frames is a basic.return, the header and all the body frames of the
\* returned message, and a basic.ack.
ReturnedThenAcked(frames) ==
  /\ Len(frames) >= 3
  /\ frames[1].frame_type = AMQP_FRAME_METHOD /\ frames[1].id = AMQP_BASIC_RETURN_METHOD
  /\ frames[2].frame_type = AMQP_FRAME_HEADER
  /\ \A i \in 3..(Len(frames) - 1) : frames[i].frame_type = AMQP_FRAME_BODY
  /\ Len(Concat(BodyFragments(frames))) >= frames[2].body_size
  /\ frames[Len(frames)].frame_type = AMQP_FRAME_METHOD
  /\ frames[Len(frames)].id = AMQP_BASIC_ACK_METHOD

\* C7: a confirm wait that gets basic.return, the returned message's header
\* and body frames and then basic.ack throws MessageReturnedException with
\* the body frames' fragments in order as body and the basic.return's reply
\* code, reply text, exchange and routing key; it is thrown only once the
\* basic.ack is consumed, and the channel is then Open.
C7_ReturnedMessage ==
  /\ (ConfirmWait(ret) /\ ReturnedThenAcked(ret.frames))
     => /\ ret.outcome = "MessageReturnedException"
        /\ ret.exception.message = Concat(BodyFragments(ret.frames))
        /\ ret.exception.reply_code = ret.frames[1].returned.reply_code
        /\ ret.exception.reply_text = ret.frames[1].returned.reply_text
        /\ ret.exception.exchange = ret.frames[1].returned.exchange
        /\ ret.exception.routing_key = ret.frames[1].returned.routing_key
        /\ RetState.availability = CS_Open
  /\ ret.outcome = "MessageReturnedException" => ReturnedThenAcked(ret.frames)

\* A message with the two-fragment body "ab" came back from exchange "ex".
C7_Witness ==
  /\ ret.outcome = "MessageReturnedException"
  /\ ReturnedThenAcked(ret.frames)
  /\ BodyFragments(ret.frames) = << <<"a">>, <<"b">> >>
  /\ ret.exception.message = <<"a", "b">>
  /\ ret.exception.exchange = "ex"
  /\ RetState.availability = CS_Open

\* C8: however GetAckOnChannel ends (banked-ack shortcut, ack, nack, return),
\* the channel is back in the pool, Open and the last used one, and the
\* transport has been offered a buffer release for it.
C8_EveryExitReleases ==
  ( /\ ret.name = "GetAckOnChannel"
    /\ ret.outcome \in {"ok", "MessageRejectedException", "MessageReturnedException"} )
  => /\ RetState.availability = CS_Open
     /\ m_last_used_channel = ret.channel
     /\ \/ ret.channel \in released
        \/ FindOnChannel(m_frame_queue, 1, ret.channel) # 0

\* The frames ReadContent obtained: a header and body frames only.
HeaderThenBodies(frames) ==
  /\ Len(frames) >= 1
  /\ frames[1].frame_type = AMQP_FRAME_HEADER
  /\ \A i \in 2..Len(frames) : frames[i].frame_type = AMQP_FRAME_BODY

\* ReadContent got, on its channel, a frame of another type than the one it
\* was reading for: no header first, or, the body not yet complete, no body
\* frame.
OutOfPlace(r) ==
  LET frames == r.frames
      n == Len(frames)
      before == SubSeq(frames, 1, n - 1)
  IN /\ n >= 1
     /\ is_on_channel(frames[n], r.channel)
     /\ \/ n = 1 /\ frames[1].frame_type # AMQP_FRAME_HEADER
        \/ /\ n >= 2
           /\ HeaderThenBodies(before)
           /\ Len(Concat(BodyFragments(before))) < frames[1].body_size
           /\ frames[n].frame_type # AMQP_FRAME_BODY

\* ReadContent got a header declaring N bytes and body frames whose
\* fragments sum to exactly N; its result is their concatenation.
Reassembled(r) ==
  ( /\ HeaderThenBodies(r.frames)
    /\ Len(Concat(BodyFragments(r.frames))) = r.frames[1].body_size )
  => (r.outcome = "ok" /\ r.message = Concat(BodyFragments(r.frames)))

\* C9 as stated: ReadContent returns the concatenation of the fragments of
\* a complete body; any frame on the channel that is no header when the
\* header is due, or no body frame while the body is incomplete, makes it
\* throw the protocol violation.
C9_AnyOtherFrameViolates ==
  ret.name = "ReadContent" =>
    /\ Reassembled(ret)
    /\ OutOfPlace(ret) => ret.outcome = "UnexpectedFrameType"

\* C9: ReadContent returns the concatenation of the fragments of a complete
\* body; a frame on the channel that is no header when the header is due, or
\* no body frame while the body is incomplete, makes it throw the protocol
\* violation, unless the frame is a channel.close, which closes the channel
\* and is thrown as the broker's channel exception.
C9_ReadContent ==
  ret.name = "ReadContent" =>
    /\ Reassembled(ret)
    /\ OutOfPlace(ret) =>
         IF is_method_on_channel(LastFrame(ret), AMQP_CHANNEL_CLOSE_METHOD, ret.channel)
           THEN /\ ret.outcome = "ChannelClosedByBroker"
                /\ RetState.availability = CS_Closed
           ELSE ret.outcome = "UnexpectedFrameType"

\* ReadContent has put the body "ab" together from two body frames.
C9_Witness ==
  /\ ret.name = "ReadContent" /\ ret.outcome = "ok"
  /\ Len(ret.frames) = 3 /\ ret.frames[1].body_size = 2
  /\ BodyFragments(ret.frames) = << <<"a">>, <<"b">> >>
  /\ ret.message = <<"a", "b">>

\* C10: a GetChannel that directly follows ReturnChannel(id) returns id and
\* marks it Used, whatever other slots are Open.
C10_Affinity ==
  [][ ( /\ pc = "idle"
        /\ ret.name = "ReturnChannel"
        /\ (ret'.name = "GetChannel" \/ op'.name = "GetChannel") )
      => ( /\ ret'.name = "GetChannel"
           /\ ret'.outcome = "ok"
           /\ ret'.id = ret.channel
           /\ m_channels'[ret.channel].availability = CS_Used ) ]_vars

\* Channel 2 was released last and GetChannel has returned it at once,
\* although the lower-numbered channel 1 is Open.
C10_Witness ==
  /\ ret.name = "GetChannel" /\ ret.outcome = "ok" /\ ret.id = 2 /\ ret.frames = <<>>
  /\ m_last_used_channel = 2
  /\ m_channels[1].availability = CS_Open
  /\ m_channels[2].availability = CS_Used

\* The running operation ends in this step.
OperationEnds == pc # "idle" /\ pc' = "idle"

\* Slot c leaves Closed in this step because CreateNewChannel, having got
\* channel.open-ok and confirm.select-ok on c, has opened it.
Reopened(c) ==
  /\ pc = "select_ok" /\ op.channel = c
  /\ ret'.name = "GetChannel" /\ ret'.outcome = "ok" /\ ret'.id = c

C12_ConnectionClosedByBroker ==
  [][ /\ ( /\ OperationEnds
           /\ LastFrame(ret').frame_type = AMQP_FRAME_METHOD
           /\ LastFrame(ret').id = AMQP_CONNECTION_CLOSE_METHOD )
        => /\ ret'.outcome = "ConnectionClosedByBroker"
           /\ sent' = Append(sent, Method(0, AMQP_CONNECTION_CLOSE_OK_METHOD))
           /\ ~m_is_connected'
      /\ ~m_is_connected
        => /\ ~m_is_connected'
           /\ pc' = "idle"
           /\ ret'.outcome = "ConnectionClosedException"
           /\ UNCHANGED <<m_channels, m_last_used_channel, m_frame_queue,
                          m_delivered_messages, held>> ]_vars

\* The broker closed the connection while channel 1 was held, and the
\* operation called after that failed with ConnectionClosedException.
C12_Witness ==
  /\ ~m_is_connected
  /\ ret.name = "CheckIsConnected" /\ ret.outcome = "ConnectionClosedException"
  /\ held[1] = 1
  /\ pc = "idle"

\* The negotiated channel-max: 65535 when the transport reports 0.
NegotiatedMax == IF channel_max = 0 THEN 65535 ELSE channel_max

\* No slot is Open or Closed, and channels 1..n exist with n the channel-max.
Saturated ==
  /\ \A i \in DOMAIN m_channels : m_channels[i].availability = CS_Used
  /\ Size(m_channels) - 1 = NegotiatedMax

\* C13: GetChannel throws "too many channels" exactly when no slot is Open
\* or Closed and the channels 1..n already number the negotiated channel-max
\* (65535 when the transport reports 0); the channel table is then unchanged;
\* and no id above the channel-max is issued or given a slot.
C13_TooManyChannels ==
  [][ /\ (pc = "idle" /\ (ret'.name = "GetChannel" \/ op'.name = "GetChannel"))
        => /\ (ret'.outcome = "TooManyChannels") <=> Saturated
           /\ ret'.outcome = "TooManyChannels" => m_channels' = m_channels
      /\ (ret'.name = "GetChannel" /\ ret'.outcome = "ok")
        => (1 <= ret'.id /\ ret'.id <= NegotiatedMax)
      /\ Size(m_channels') - 1 <= NegotiatedMax ]_vars

\* Channel-max is 2, channels 1 and 2 are held, and a third GetChannel has
\* failed.
C13_Witness ==
  /\ channel_max = 2
  /\ ret.name = "GetChannel" /\ ret.outcome = "TooManyChannels"
  /\ Size(m_channels) = 3
  /\ held[1] = 1 /\ held[2] = 1
  /\ \A i \in DOMAIN m_channels : m_channels[i].availability = CS_Used

\* This step is a call of RemoveConsumer or GetConsumerChannel.
RegistryLookup ==
  /\ pc = "idle" /\ pc' = "idle"
  /\ ret'.name \in {"RemoveConsumer", "GetConsumerChannel"}

\* C14: RemoveConsumer and GetConsumerChannel on a tag that is not in
\* m_consumer_channel_map (never registered, or registered and removed since)
\* throw ConsumerTagNotFoundException, return no channel id and leave the
\* registry as it is; on a registered tag they return its channel.
C14_UnknownTagNotFound ==
  [][ RegistryLookup =>
        LET found == FindConsumer(m_consumer_channel_map, ret'.consumer_tag) IN
        /\ found = {} =>
             /\ ret'.outcome = "ConsumerTagNotFoundException"
             /\ ret'.id = 0
             /\ m_consumer_channel_map' = m_consumer_channel_map
        /\ found # {} =>
             /\ ret'.outcome = "ok"
             /\ [first |-> ret'.consumer_tag, second |-> ret'.id] \in found ]_vars

\* A consumer tag was registered on channel 1 and removed, and a second
\* RemoveConsumer of the same tag has failed.
C14_Witness ==
  /\ ret.name = "RemoveConsumer" /\ ret.outcome = "ConsumerTagNotFoundException"
  /\ ret.consumer_tag \in removed
  /\ FindConsumer(m_consumer_channel_map, ret.consumer_tag) = {}
  /\ held[1] = 1

\* The channel of the MaybeSubscribeToDirectReply this step calls or ends.
DirectReplyChannel ==
  IF ret'.name = "MaybeSubscribeToDirectReply" THEN ret'.channel ELSE op'.channel

\* C15: MaybeSubscribeToDirectReply on a channel without a recorded tag sends
\* exactly one basic.consume (no-local, no-ack, exclusive) on
\* amq.rabbitmq.reply-to, and when basic.consume-ok arrives records its
\* consumer tag in m_consumer_channel_map (tag -> channel) and as the
\* channel's direct_reply_tag; on a channel with a recorded tag it sends
\* nothing and changes nothing; the recorded tag never changes, and
\* GetDirectReplyToken returns it.
C15_DirectReplyIdempotent ==
  [][ /\ ( /\ pc = "idle"
           /\ \/ ret'.name = "MaybeSubscribeToDirectReply"
              \/ op'.name = "MaybeSubscribeToDirectReply" )
        => LET c == DirectReplyChannel IN
           IF m_channels[c].direct_reply_tag # ""
             THEN /\ pc' = "idle" /\ ret'.outcome = "ok"
                  /\ sent' = <<>> /\ ~ret'.read /\ ~ret'.queued
                  /\ UNCHANGED <<m_channels, m_consumer_channel_map, m_frame_queue,
                                 m_delivered_messages, m_last_used_channel,
                                 m_is_connected>>
             ELSE /\ pc' = "consume_ok"
                  /\ Len(sent') = 1
                  /\ sent'[1].channel = c
                  /\ sent'[1].method = AMQP_BASIC_CONSUME_METHOD
                  /\ sent'[1].queue = "amq.rabbitmq.reply-to"
                  /\ sent'[1].no_ack /\ sent'[1].exclusive /\ sent'[1].no_local
      /\ ( /\ pc = "consume_ok" /\ pc' = "idle"
           /\ LastFrame(ret').id = AMQP_BASIC_CONSUME_OK_METHOD )
        => LET c == ret'.channel
               ctag == LastFrame(ret').consumer_tag
           IN /\ ret'.outcome = "ok"
              /\ sent' = sent
              /\ m_channels'[c].direct_reply_tag = ctag
              /\ [first |-> ctag, second |-> c] \in m_consumer_channel_map'
      /\ \A c \in DOMAIN m_channels :
           m_channels[c].direct_reply_tag # ""
             => m_channels'[c].direct_reply_tag = m_channels[c].direct_reply_tag
      /\ (pc = "idle" /\ ret'.name = "GetDirectReplyToken")
        => ret'.consumer_tag = m_channels'[ret'.channel].direct_reply_tag ]_vars

\* Channel 1 is subscribed with the tag the broker assigned, and a second
\* MaybeSubscribeToDirectReply on it has returned without sending anything.
C15_Witness ==
  /\ ret.name = "MaybeSubscribeToDirectReply" /\ ret.channel = 1 /\ ret.outcome = "ok"
  /\ ret.frames = <<>> /\ sent = <<>>
  /\ m_channels[1].direct_reply_tag = "amq.ctag-1"
  /\ [first |-> "amq.ctag-1", second |-> 1] \in m_consumer_channel_map

\* C16: on every channel last_delivery_tag never decreases, whatever the
\* confirm waits on the channel get (ack, duplicate ack, nack, return and
\* ack).
C16_TagNonDecreasing ==
  [][ \A c \in DOMAIN m_channels :
        m_channels'[c].last_delivery_tag >= m_channels[c].last_delivery_tag ]_vars

\* Slot 0 exists and is Used, no GetChannel has returned 0, and no channel
\* being opened is channel 0.
SentinelKept ==
  /\ 0 \in DOMAIN m_channels
  /\ m_channels[0].availability = CS_Used
  /\ (ret.name = "GetChannel" /\ ret.outcome = "ok") => ret.id # 0
  /\ op.name = "GetChannel" => op.channel # 0

\* C17: in every reachable state m_channels has an entry at index 0 whose
\* availability is Used, GetChannel never returns 0 nor opens channel 0, and
\* the table never shrinks.
C17_SentinelSlot ==
  /\ []SentinelKept
  /\ [][DOMAIN m_channels \subseteq DOMAIN m_channels']_vars

\* Both channels have been opened, channel 1 has been closed by the broker
\* and channel 2 is held: the table has three entries and slot 0 is Used.
C17_Witness ==
  /\ Size(m_channels) = 3
  /\ m_channels[0].availability = CS_Used
  /\ m_channels[1].availability = CS_Closed
  /\ m_channels[2].availability = CS_Used /\ held[2] = 1
  /\ ret.name = "GetChannel" /\ ret.outcome = "ok" /\ ret.id = 2

\* This step is a CheckRpcReply: in DoLogin, or after a transport call.
RpcReplyChecked ==
  /\ pc \in {"idle", "login"} /\ pc' = "idle"
  /\ ret'.name \in {"DoLogin", "CheckRpcReply"}

\* C18: CheckRpcReply returns on a normal reply, changing nothing; throws
\* the library exception on a library error, closing no channel; on a server
\* exception that is channel.close marks the given channel Closed and sends
\* channel.close-ok, on one that is connection.close marks the connection not
\* connected and sends connection.close-ok, and then throws the exception
\* with the broker's reply code and text.
C18_CheckRpcReply ==
  [][ RpcReplyChecked =>
        LET reply == ret'.reply
            c == ret'.channel
        IN
        /\ reply.reply_type = AMQP_RESPONSE_NORMAL =>
             /\ ret'.outcome = "ok"
             /\ sent' = <<>>
             /\ UNCHANGED <<m_channels, m_last_used_channel, m_frame_queue,
                            m_delivered_messages, m_consumer_channel_map, held>>
             /\ ret'.name = "CheckRpcReply" => UNCHANGED m_is_connected
        /\ reply.reply_type = AMQP_RESPONSE_LIBRARY_EXCEPTION =>
             /\ ret'.outcome = "AmqpResponseLibraryException"
             /\ sent' = <<>>
             /\ UNCHANGED <<m_channels, m_is_connected>>
        /\ ( /\ reply.reply_type = AMQP_RESPONSE_SERVER_EXCEPTION
             /\ reply.id = AMQP_CHANNEL_CLOSE_METHOD ) =>
             /\ ret'.outcome = "ChannelClosedByBroker"
             /\ m_channels' = [m_channels EXCEPT ![c].availability = CS_Closed]
             /\ sent' = <<Method(c, AMQP_CHANNEL_CLOSE_OK_METHOD)>>
             /\ UNCHANGED m_is_connected
             /\ ret'.exception.reply_code = reply.reply_code
             /\ ret'.exception.reply_text = reply.reply_text
        /\ ( /\ reply.reply_type = AMQP_RESPONSE_SERVER_EXCEPTION
             /\ reply.id = AMQP_CONNECTION_CLOSE_METHOD ) =>
             /\ ret'.outcome = "ConnectionClosedByBroker"
             /\ ~m_is_connected'
             /\ sent' = <<Method(0, AMQP_CONNECTION_CLOSE_OK_METHOD)>>
             /\ UNCHANGED m_channels
             /\ ret'.exception.reply_code = reply.reply_code
             /\ ret'.exception.reply_text = reply.reply_text ]_vars

\* A transport call on the held channel 1 came back with the broker's
\* channel.close 404: the slot is Closed and close-ok went out on channel 1.
C18_Witness ==
  /\ ret.name = "CheckRpcReply" /\ ret.channel = 1
  /\ ret.reply.id = AMQP_CHANNEL_CLOSE_METHOD
  /\ ret.outcome = "ChannelClosedByBroker" /\ ret.exception.reply_code = 404
  /\ m_channels[1].availability = CS_Closed
  /\ sent = <<Method(1, AMQP_CHANNEL_CLOSE_OK_METHOD)>>
  /\ m_is_connected

\* The frame this step gave to AddToFrameQueue.
ParkedFrame == IF pc' = "idle" THEN LastFrame(ret') ELSE op'.parked

\* This step is a wait reading a frame it is not waiting for and giving it
\* to AddToFrameQueue, which returns (the wait goes on) or throws.
Parks ==
  /\ pc \in MethodWaits \cup FrameWaits
  /\ QueuedIndex = 0
  /\ \/ pc' = pc /\ op'.frames = op.frames /\ op'.parked # NoFrame
     \/ /\ pc' = "idle"
        /\ LastFrame(ret').id \notin {AMQP_CHANNEL_CLOSE_METHOD, AMQP_CONNECTION_CLOSE_METHOD}
        /\ ~( /\ is_on_channel(LastFrame(ret'), op.channel)
              /\ \/ pc \in FrameWaits
                 \/ is_expected_method_on_channel(LastFrame(ret'), op.channel,
                                                  Expected(pc)) )

\* The first basic.deliver of the channel in q: its index, 0 for none.
DeliverIndex(q, channel) == FindExpected(q, channel, {AMQP_BASIC_DELIVER_METHOD})

\* The indices of the frames of the channel that follow index it, up to the
\* one with which their fragments reach need bytes.
RECURSIVE BodyIndices(_, _, _, _)
BodyIndices(q, channel, it, need) ==
  IF need <= 0 THEN {}
  ELSE LET nxt == FindOnChannel(q, it + 1, channel) IN
       IF nxt = 0 THEN {}
       ELSE {nxt} \cup BodyIndices(q, channel, nxt, need - Len(q[nxt].body_fragment))

\* The indices of the first delivery of the channel in q: its basic.deliver,
\* the header after it and the body frames after that.
DeliveryIndices(q, channel) ==
  LET deliver == DeliverIndex(q, channel)
      header == FindOnChannel(q, deliver + 1, channel)
  IN {deliver, header} \cup BodyIndices(q, channel, header, q[header].body_size)

\* q without the frames at the indices in D
RECURSIVE Without(_, _)
Without(q, D) ==
  IF q = <<>> THEN <<>>
  ELSE LET front == Without(SubSeq(q, 1, Len(q) - 1), D) IN
       IF Len(q) \in D THEN front ELSE Append(front, q[Len(q)])

\* The fragments of the body frames of q at the indices in D, in order.
BodyOf(q, D) ==
  Concat(BodyFragments(Without(q, (1..Len(q)) \ D)))

\* C19: when the frame given to AddToFrameQueue completes a delivery of its
\* channel (basic.deliver, header, body frames reaching the declared size),
\* AddToFrameQueue returns with exactly the frames of that delivery removed
\* from the queue, every other queued frame in place and in order, and one
\* message with the delivery's body appended to the delivered messages.
C19_DeliveryPromoted ==
  [][ Parks =>
        LET f == ParkedFrame
            pushed == Append(m_frame_queue, f)
            D == DeliveryIndices(pushed, f.channel)
        IN CheckForQueuedMessageOnChannel(pushed, f.channel) = "true" =>
             /\ pc' = pc
             /\ m_frame_queue' = Without(pushed, D)
             /\ m_delivered_messages' =
                  Append(m_delivered_messages, Envelope(f.channel, BodyOf(pushed, D))) ]_vars

\* The frames queued for the channel do not yet form a delivery: there is no
\* basic.deliver, or no frame of the channel after it, or a header and after
\* it only body frames whose fragments total less than the declared size.
Incomplete(q, channel) ==
  LET deliver == DeliverIndex(q, channel)
      header == FindOnChannel(q, deliver + 1, channel)
      after == OnChannel(SubSeq(q, header + 1, Len(q)), channel)
  IN \/ deliver = 0
     \/ deliver # 0 /\ header = 0
     \/ /\ deliver # 0 /\ header # 0
        /\ q[header].frame_type = AMQP_FRAME_HEADER
        /\ \A i \in 1..Len(after) : after[i].frame_type = AMQP_FRAME_BODY
        /\ Len(Concat(BodyFragments(after))) < q[header].body_size

\* C20: when the frames queued for the channel of the frame given to
\* AddToFrameQueue do not yet form a complete delivery, the detector reports
\* incomplete and AddToFrameQueue only appends the frame: nothing is removed
\* from the queue, nothing is appended to the delivered messages, and the
\* wait goes on.
C20_IncompleteKept ==
  [][ Parks =>
        LET f == ParkedFrame
            pushed == Append(m_frame_queue, f)
        IN Incomplete(pushed, f.channel) =>
             /\ CheckForQueuedMessageOnChannel(pushed, f.channel) = "false"
             /\ pc' = pc
             /\ m_frame_queue' = pushed
             /\ m_delivered_messages' = m_delivered_messages ]_vars

\* While GetChannel waits for the reply to its method on channel 1,
\* basic.deliver and a header declaring two bytes are queued for the channel
\* and the first of two body frames has just been added: three frames wait,
\* nothing is delivered.
C20_Witness ==
  /\ pc \in {"open_ok", "select_ok"} /\ op.channel = 1
  /\ op.parked = BodyFrame(1, <<"a">>)
  /\ m_frame_queue = << MethodFrame(1, AMQP_BASIC_DELIVER_METHOD, 0, NoReturn),
                        HeaderFrame(1, 2), BodyFrame(1, <<"a">>) >>
  /\ m_delivered_messages = <<>>

\* C21: the message ReadContent returns has exactly as many octets as its
\* header declared (none, and no body frame read, for a declared size of 0),
\* and a delivery that the detector counts complete has body frames whose
\* fragments total exactly the size its header declared.
C21_BodyLengthDeclared ==
  [][ /\ (OperationEnds /\ ret'.name = "ReadContent" /\ ret'.outcome = "ok") =>
           /\ Len(ret'.message) = ret'.frames[1].body_size
           /\ ret'.frames[1].body_size = 0 => Len(ret'.frames) = 1
      /\ Parks =>
           LET f == ParkedFrame
               pushed == Append(m_frame_queue, f)
               D == DeliveryIndices(pushed, f.channel)
               header == FindOnChannel(pushed, DeliverIndex(pushed, f.channel) + 1,
                                       f.channel)
           IN CheckForQueuedMessageOnChannel(pushed, f.channel) = "true" =>
                Len(BodyOf(pushed, D)) = pushed[header].body_size ]_vars

\* This step is a wait on channel B reading from the transport a
\* channel.close addressed to another channel, or a connection.close.
UnrelatedClose ==
  /\ pc \in MethodWaits \cup FrameWaits
  /\ QueuedIndex = 0
  /\ OperationEnds
  /\ ret'.frames = Append(op.frames, LastFrame(ret'))
  /\ LastFrame(ret').frame_type = AMQP_FRAME_METHOD
  /\ \/ /\ LastFrame(ret').id = AMQP_CHANNEL_CLOSE_METHOD
        /\ LastFrame(ret').channel # op.channel
     \/ LastFrame(ret').id = AMQP_CONNECTION_CLOSE_METHOD

DuplicateAck(c) ==
  /\ pc = "publish_ack" /\ op.channel = c
  /\ OperationEnds
  /\ LastFrame(ret').frame_type = AMQP_FRAME_METHOD
  /\ LastFrame(ret').id = AMQP_BASIC_ACK_METHOD
  /\ LastFrame(ret').delivery_tag <= m_channels[c].last_delivery_tag

\* C23: a confirm wait that gets a basic.ack with a tag less than or equal
\* to last_delivery_tag reports success; last_delivery_tag and unconsumed_ack
\* are as before, and the channel is back in the pool: its slot Open, the
\* last used one, the caller's acquisition over.
C23_DuplicateAckTolerated ==
  [][ \A c \in ChannelIds :
        DuplicateAck(c) =>
          /\ ret'.name = "GetAckOnChannel" /\ ret'.outcome = "ok"
          /\ m_channels'[c].last_delivery_tag = m_channels[c].last_delivery_tag
          /\ m_channels'[c].unconsumed_ack = m_channels[c].unconsumed_ack
          /\ m_channels'[c].availability = CS_Open
          /\ m_last_used_channel' = c
          /\ held'[c] = held[c] - 1 ]_vars

\* Tag 2 was acked on channel 1 and a later confirm wait got an ack with
\* tag 1: it succeeded and the channel's tag is still 2.
C23_Witness ==
  /\ ret.name = "GetAckOnChannel" /\ ret.channel = 1 /\ ret.outcome = "ok"
  /\ ret.tag_before = 2
  /\ Len(ret.frames) = 1
  /\ ret.frames[1].id = AMQP_BASIC_ACK_METHOD /\ ret.frames[1].delivery_tag = 1
  /\ RetState.last_delivery_tag = 2 /\ RetState.unconsumed_ack = 0
  /\ RetState.availability = CS_Open

\* CreateNewChannel is waiting, and what it has sent and got so far is in
\* order: channel.open; then, channel.open-ok having arrived, confirm.select,
\* all on the id it is opening, whose slot is Closed.
OpeningInOrder ==
  LET c == op.channel IN
  /\ pc = "open_ok" =>
       /\ sent = << Method(c, AMQP_CHANNEL_OPEN_METHOD) >>
       /\ op.frames = <<>>
       /\ m_channels[c].availability = CS_Closed
  /\ pc = "select_ok" =>
       /\ sent = << Method(c, AMQP_CHANNEL_OPEN_METHOD),
                    Method(c, AMQP_CONFIRM_SELECT_METHOD) >>
       /\ op.frames = << MethodFrame(c, AMQP_CHANNEL_OPEN_OK_METHOD, 0, NoReturn) >>
       /\ m_channels[c].availability = CS_Closed

\* C24: CreateNewChannel sends channel.open and waits for channel.open-ok,
\* then sends confirm.select and waits for confirm.select-ok, on the same id;
\* a slot other than 0 leaves Closed only in the step in which the second
\* reply arrives, GetChannel then returning the id with the slot Used; and
\* a GetChannel that ends with an exception while opening returns no id and
\* leaves the slot Closed.
C24_OpenThenConfirmSelect ==
  /\ []OpeningInOrder
  /\ [][ /\ \A c \in DOMAIN m_channels' \ {0} :
              ( /\ c \in DOMAIN m_channels => m_channels[c].availability = CS_Closed
                /\ m_channels'[c].availability # CS_Closed )
              => /\ pc = "select_ok" /\ op.channel = c
                 /\ ret'.name = "GetChannel" /\ ret'.outcome = "ok" /\ ret'.id = c
                 /\ ret'.frames = << MethodFrame(c, AMQP_CHANNEL_OPEN_OK_METHOD, 0, NoReturn),
                                     MethodFrame(c, AMQP_CONFIRM_SELECT_OK_METHOD, 0, NoReturn) >>
                 /\ sent' = << Method(c, AMQP_CHANNEL_OPEN_METHOD),
                               Method(c, AMQP_CONFIRM_SELECT_METHOD) >>
                 /\ m_channels'[c].availability = CS_Used
         /\ ( /\ pc \in {"open_ok", "select_ok"}
              /\ OperationEnds
              /\ ret'.outcome # "ok" )
            => /\ ret'.id = 0
               /\ m_channels'[op.channel].availability = CS_Closed ]_vars

\* GetChannel has opened channel 2: channel.open and confirm.select went out
\* on it, in that order, each answered, and its slot is Used.
C24_Witness ==
  /\ ret.name = "GetChannel" /\ ret.outcome = "ok" /\ ret.id = 2
  /\ sent = << Method(2, AMQP_CHANNEL_OPEN_METHOD), Method(2, AMQP_CONFIRM_SELECT_METHOD) >>
  /\ ret.frames = << MethodFrame(2, AMQP_CHANNEL_OPEN_OK_METHOD, 0, NoReturn),
                     MethodFrame(2, AMQP_CONFIRM_SELECT_OK_METHOD, 0, NoReturn) >>
  /\ m_channels[2].availability = CS_Used

\* C25: a confirm wait reports success for the n-th publish of its channel
\* only if the broker has sent a basic.ack with a tag of at least n (with
\* this broker: the wait has obtained it), and unconsumed_ack counts no
\* publish the broker has not acked: after n publishes, all answered, no ack
\* is banked.
C25_ConfirmSound ==
  [][ \A c \in ChannelIds :
        ( /\ pc' = "idle"
          /\ pc # "idle" \/ published' # published
          /\ ret'.name = "GetAckOnChannel" /\ ret'.channel = c
          /\ ret'.outcome = "ok" )
        => /\ \E i \in 1..Len(ret'.frames) :
                /\ ret'.frames[i].id = AMQP_BASIC_ACK_METHOD
                /\ ret'.frames[i].delivery_tag >= published'[c]
           /\ m_channels'[c].unconsumed_ack = 0 ]_vars

\* C26: a channel id that CreateNewChannel recycles starts as a fresh
\* channel: in the step that reopens slot c its last_delivery_tag is 0, its
\* unconsumed_ack is 0 and its direct_reply_tag is empty.
C26_RecycledChannelFresh ==
  [][ \A c \in DOMAIN m_channels :
        Reopened(c)
          => m_channels'[c] = ChannelState(m_channels'[c].availability) ]_vars

\* C27: in every reachable state a channel whose direct_reply_tag is not
\* empty is not Closed, and the consumer registry maps that tag to that
\* channel.
C27_DirectReplyTagRegistered ==
  \A c \in DOMAIN m_channels :
    DirectReplySubscribed(m_channels[c])
      => /\ IsChannelOpen(m_channels, c)
         /\ [first |-> m_channels[c].direct_reply_tag, second |-> c]
              \in m_consumer_channel_map

\* C28: under a transport that delivers what the broker has sent, a confirm
\* wait on channel c that found no banked ack ends: it returns or raises once
\* basic.ack, basic.nack, basic.return with its content and basic.ack,
\* channel.close on c or connection.close has been sent, however many frames
\* for other channels are read first; and a wait that ends with the broker's
\* verdict has taken every frame of it from channel c.
C28_ConfirmWaitEnds ==
  /\ \A c \in ChannelIds :
       (pc = "publish_ack" /\ op.name = "GetAckOnChannel" /\ op.channel = c)
         ~> (pc = "idle" /\ ret.name = "GetAckOnChannel" /\ ret.channel = c)
  /\ [][ ( /\ OperationEnds
           /\ ret'.name = "GetAckOnChannel"
           /\ ret'.outcome \in {"ok", "MessageRejectedException",
                                "MessageReturnedException"} )
         => \A i \in 1..Len(ret'.frames) : ret'.frames[i].channel = ret'.channel ]_vars

\* A confirm wait on channel 1 has returned with the broker's basic.ack
\* after it read and queued two frames for channel 2.
C28_Witness ==
  /\ ret.name = "GetAckOnChannel" /\ ret.channel = 1 /\ ret.outcome = "ok"
  /\ ret.read
  /\ LastFrame(ret).id = AMQP_BASIC_ACK_METHOD /\ LastFrame(ret).channel = 1
  /\ Len(m_frame_queue) = 2
  /\ \A i \in 1..Len(m_frame_queue) : m_frame_queue[i].channel = 2

====
